---- MODULE Spec2Model ----
(***************************************************************************)
(* Robin Hood hash table (src/src/robin_table.c): open addressing with     *)
(* Robin Hood displacement, backward-shift deletion and a grow/shrink      *)
(* capacity policy.  The table is a record `rt` with the fields of         *)
(* struct robin_table_t; the bucket array is a function over               *)
(* 0 .. bucket_count-1 of records with the fields of robin_bucket_t.       *)
(* A key pointer is modelled by the bytes it points at (the caller keeps   *)
(* them alive and unchanged), the NULL key pointer by the empty sequence;  *)
(* a value pointer is a positive number and NULL is 0.                     *)
(***************************************************************************)
EXTENDS Integers, Sequences, FiniteSets, TLC

(***************************************************************************)
(* Program constants.                                                      *)
(***************************************************************************)
RT_BUCKET_COUNT_MIN == 32
RT_LOAD_FACTOR_PCT_MAX == 75
RT_LOAD_FACTOR_PCT_MIN == 25

(***************************************************************************)
(* Bounds of the model.                                                    *)
(***************************************************************************)
\* number of distinct non-NULL value pointers the driver supplies
NVals == 2
\* the driver's key array is put in runs: keys[1..BulkLow], then
\* keys[BulkLow+1..BulkLow+BulkMore]
BulkLow == 15
BulkMore == 8
\* the largest count a table is created with
MaxExpected == 100
\* the number of keys put one by one, and of those the number deleted one
\* by one, in the growth and shrink scenario
GrowthPuts == 25
ShrinkDels == 18
\* the puts of the fill-and-drain caller: one more than fills 64 buckets to 75%
DrainPuts == 49
\* the puts of the iterating caller
IterPuts == 4
\* the width of size_t in bits, where a size_t can overflow: the count given
\* to create times 100, and the cursor of the iterator; every table has fewer
\* than 2^SizeBits buckets
SizeBits == 14

NULL == 0
NoKey == << >>
Vals == 1 .. NVals
temp_val == 1

----------------------------------------------------------------------------
(***************************************************************************)
(* Bit operations of C on non-negative numbers.  a & b is computed bit by  *)
(* bit, except for b = 2^k - 1, where it is a mod 2^k.                     *)
(***************************************************************************)
RECURSIVE Pow2(_)
Pow2(k) == IF k = 0 THEN 1 ELSE 2 * Pow2(k - 1)

Pow2Set == {Pow2(k) : k \in 0 .. 30}

Shr(n, k) == n \div Pow2(k)

\* the largest size_t
SIZE_MAX == Pow2(SizeBits) - 1

RECURSIVE BitAndBits(_, _)
BitAndBits(a, b) ==
    IF a = 0 \/ b = 0 THEN 0
    ELSE (a % 2) * (b % 2) + 2 * BitAndBits(a \div 2, b \div 2)

BitAnd(a, b) == IF b + 1 \in Pow2Set THEN a % (b + 1) ELSE BitAndBits(a, b)

RECURSIVE BitOr(_, _)
BitOr(a, b) ==
    IF a = 0 THEN b
    ELSE IF b = 0 THEN a
    ELSE (IF a % 2 = 1 \/ b % 2 = 1 THEN 1 ELSE 0) + 2 * BitOr(a \div 2, b \div 2)

(***************************************************************************)
(* robin_table_next_pow2: only called with n >= RT_BUCKET_COUNT_MIN, so    *)
(* the decrement never wraps; the shift by 32 is two shifts by 16.         *)
(***************************************************************************)
\* mutant of robin_table_next_pow2: n is not decremented first
robin_table_next_pow2_NoDec(n) ==
    LET n1 == BitOr(n, Shr(n, 1))
        n2 == BitOr(n1, Shr(n1, 2))
        n3 == BitOr(n2, Shr(n2, 4))
        n4 == BitOr(n3, Shr(n3, 8))
        n5 == BitOr(n4, Shr(n4, 16))
        n6 == BitOr(n5, Shr(Shr(n5, 16), 16))
    IN  n6 + 1

robin_table_next_pow2(n) ==
    LET n0 == n - 1
        n1 == BitOr(n0, Shr(n0, 1))
        n2 == BitOr(n1, Shr(n1, 2))
        n3 == BitOr(n2, Shr(n2, 4))
        n4 == BitOr(n3, Shr(n3, 8))
        n5 == BitOr(n4, Shr(n4, 16))
        n6 == BitOr(n5, Shr(Shr(n5, 16), 16))
    IN  n6 + 1

\* count * 100 is a product of size_t: it wraps above SIZE_MAX
robin_table_calc_bucket_count(count) ==
    LET bucket_count == ((count * 100) % (SIZE_MAX + 1)) \div RT_LOAD_FACTOR_PCT_MAX
    IN  IF bucket_count < RT_BUCKET_COUNT_MIN
        THEN RT_BUCKET_COUNT_MIN
        ELSE robin_table_next_pow2(bucket_count)

----------------------------------------------------------------------------
(***************************************************************************)
(* Hash strategies.  The table only needs hash(key, klen, seed) to be a    *)
(* function of the key bytes and the seed; the three used here are chosen  *)
(* for what they do to the probe sequences.  With s the sum of the key     *)
(* bytes plus the seed:                                                    *)
(*   "sum"   s: neighbouring ideal indices, so one colliding key displaces *)
(*           a whole run; keys of different length share a hash;           *)
(*   "pair"  s \div 2: two keys per ideal index, one long run with rising  *)
(*           psl; a key with hash 0;                                       *)
(*   "fold"  two keys per ideal index under mask 31 and one under mask 63, *)
(*           with runs that wrap around the end of either array;           *)
(*   "same"  one hash for every key: all entries form one run.             *)
(***************************************************************************)
HashFuncs == {"sum", "pair", "fold"}

RECURSIVE ByteSum(_, _)
ByteSum(key, klen) == IF klen = 0 THEN 0 ELSE key[klen] + ByteSum(key, klen - 1)

hash_func(f, key, klen, seed) ==
    LET s == ByteSum(key, klen) + seed
    IN  CASE f = "sum"  -> s
          [] f = "pair" -> s \div 2
          [] f = "fold" -> 32 * (s % 2) + 24 + (s \div 2)
          [] f = "same" -> 7

----------------------------------------------------------------------------
(***************************************************************************)
(* Buckets and the table.                                                  *)
(***************************************************************************)
\* a bucket of calloc'ed or memset memory
ZeroBucket == [key |-> NoKey, val |-> NULL, psl |-> 0, klen |-> 0, hash |-> 0]

ZeroBuckets(n) == [i \in 0 .. n - 1 |-> ZeroBucket]

ExpandAt(bucket_count) == (bucket_count * RT_LOAD_FACTOR_PCT_MAX) \div 100
\* mutant of ShrinkAt: the table shrinks when it is half full
ShrinkAt_Half(bucket_count) == bucket_count \div 2

ShrinkAt(bucket_count) == (bucket_count * RT_LOAD_FACTOR_PCT_MIN) \div 100

\* robin_table_create, with both allocations succeeding
robin_table_create(count, hf, seed) ==
    LET bucket_count == robin_table_calc_bucket_count(count)
    IN  [buckets      |-> ZeroBuckets(bucket_count),
         count        |-> 0,
         bucket_count |-> bucket_count,
         init_buckets |-> bucket_count,
         mask         |-> bucket_count - 1,
         expand_at    |-> ExpandAt(bucket_count),
         shrink_at    |-> ShrinkAt(bucket_count),
         seed         |-> seed,
         hash_func    |-> hf]

\* memcmp(a, b, n) == 0
MemEq(a, b, n) == \A i \in 1 .. n : a[i] = b[i]

\* mutant of KeyMatch: equal hashes are taken for equal keys
KeyMatch_HashOnly(bucket, hash, key, klen) == bucket.hash = hash

\* the key comparison of put0 and get_bucket
KeyMatch(bucket, hash, key, klen) ==
    bucket.hash = hash /\ bucket.klen = klen /\ MemEq(bucket.key, key, klen)

\* mutant of Richer: the resident of equal psl is displaced too
Richer_OrEqual(bucket, entry) == bucket.psl <= entry.psl

\* put0: the resident is "richer" than the entry being inserted
Richer(bucket, entry) == bucket.psl < entry.psl

\* mutant of Place: the count is not incremented
Place_NoCount(rt, idx, entry) == [rt EXCEPT !.buckets[idx] = entry]

\* put0: *bucket = entry; ++rt->count
Place(rt, idx, entry) == [rt EXCEPT !.buckets[idx] = entry, !.count = @ + 1]

\* mutant of OnDuplicate: the new value replaces the stored one
OnDuplicate_Upsert(rt, idx, val) ==
    [rt |-> [rt EXCEPT !.buckets[idx].val = val], ret |-> val]

\* put0: the key is already stored: return bucket->val, nothing is written
OnDuplicate(rt, idx, val) == [rt |-> rt, ret |-> rt.buckets[idx].val]

(***************************************************************************)
(* robin_table_put0.  The result is the table, the returned pointer, the   *)
(* number of times the loop advanced, and hang = TRUE when the loop has    *)
(* advanced more than bucket_count times (it then never ends: no bucket is *)
(* empty and none matches).                                                *)
(***************************************************************************)
RECURSIVE put0_loop(_, _, _, _, _, _, _, _)
put0_loop(rt, key, klen, val, hash, idx, entry, steps) ==
    LET bucket == rt.buckets[idx]
    IN  IF steps > rt.bucket_count
        THEN [rt |-> rt, ret |-> NULL, steps |-> steps, hang |-> TRUE]
        ELSE IF bucket.key = NoKey
        THEN [rt |-> Place(rt, idx, entry), ret |-> val, steps |-> steps, hang |-> FALSE]
        ELSE IF KeyMatch(bucket, hash, key, klen)
        THEN LET d == OnDuplicate(rt, idx, val)
             IN  [rt |-> d.rt, ret |-> d.ret, steps |-> steps, hang |-> FALSE]
        ELSE LET swap   == Richer(bucket, entry)
                 rt1    == IF swap THEN [rt EXCEPT !.buckets[idx] = entry] ELSE rt
                 entry1 == IF swap THEN bucket ELSE entry
             IN  put0_loop(rt1, key, klen, val, hash,
                           BitAnd(idx + 1, rt.mask),
                           [entry1 EXCEPT !.psl = @ + 1],
                           steps + 1)

robin_table_put0(rt, key, klen, val) ==
    LET hash == hash_func(rt.hash_func, key, klen, rt.seed)
    IN  put0_loop(rt, key, klen, val, hash, BitAnd(hash, rt.mask),
                  [key |-> key, val |-> val, psl |-> 0, klen |-> klen, hash |-> hash],
                  0)

(***************************************************************************)
(* robin_table_resize.  alloc_ok is the outcome of calloc.  asserts is     *)
(* FALSE when one of the two RT_ASSERTs at the top does not hold.          *)
(***************************************************************************)
RECURSIVE resize_loop(_, _, _, _, _)
resize_loop(rt, old_buckets, old_bucket_count, i, hang) ==
    LET rest == {j \in i .. old_bucket_count - 1 : old_buckets[j].key # NoKey}
    IN  IF rest = {} \/ hang
        THEN [rt |-> rt, hang |-> hang]
        ELSE LET next   == CHOOSE j \in rest : \A k \in rest : j <= k
                 bucket == old_buckets[next]
                 r      == robin_table_put0(rt, bucket.key, bucket.klen, bucket.val)
             IN  resize_loop(r.rt, old_buckets, old_bucket_count, next + 1, r.hang)

\* mutant of FreshTable: the count is not reset before the reinsertion
FreshTable_KeepCount(rt, bucket_count) ==
    [rt EXCEPT !.buckets      = ZeroBuckets(bucket_count),
               !.bucket_count = bucket_count,
               !.mask         = bucket_count - 1,
               !.expand_at    = ExpandAt(bucket_count),
               !.shrink_at    = ShrinkAt(bucket_count)]

\* mutant of FreshTable: the mask of the old bucket array is kept
FreshTable_StaleMask(rt, bucket_count) ==
    [rt EXCEPT !.buckets      = ZeroBuckets(bucket_count),
               !.count        = 0,
               !.bucket_count = bucket_count,
               !.expand_at    = ExpandAt(bucket_count),
               !.shrink_at    = ShrinkAt(bucket_count)]

\* resize: the table over the new, zeroed bucket array, before the reinsertion
FreshTable(rt, bucket_count) ==
    [rt EXCEPT !.buckets      = ZeroBuckets(bucket_count),
               !.count        = 0,
               !.bucket_count = bucket_count,
               !.mask         = bucket_count - 1,
               !.expand_at    = ExpandAt(bucket_count),
               !.shrink_at    = ShrinkAt(bucket_count)]

\* mutant of robin_table_resize: the fields are set before calloc is checked
robin_table_resize_LateFail(rt, bucket_count, alloc_ok) ==
    LET asserts == /\ BitAnd(bucket_count, bucket_count - 1) = 0
                   /\ bucket_count > rt.count
    IN  IF ~alloc_ok
        THEN [rt |-> [rt EXCEPT !.bucket_count = bucket_count,
                                !.mask         = bucket_count - 1,
                                !.expand_at    = ExpandAt(bucket_count),
                                !.shrink_at    = ShrinkAt(bucket_count)],
              ok |-> FALSE, hang |-> FALSE, asserts |-> asserts]
        ELSE LET r == resize_loop(FreshTable(rt, bucket_count),
                                  rt.buckets, rt.bucket_count, 0, FALSE)
             IN  [rt |-> r.rt, ok |-> TRUE, hang |-> r.hang, asserts |-> asserts]

\* mutant of robin_table_resize: the buckets are copied to the same indexes of
\* the new array instead of being put again
robin_table_resize_RawCopy(rt, bucket_count, alloc_ok) ==
    LET asserts == /\ BitAnd(bucket_count, bucket_count - 1) = 0
                   /\ bucket_count > rt.count
    IN  IF ~alloc_ok
        THEN [rt |-> rt, ok |-> FALSE, hang |-> FALSE, asserts |-> asserts]
        ELSE [rt |-> [FreshTable(rt, bucket_count) EXCEPT
                          !.count   = rt.count,
                          !.buckets = [i \in 0 .. bucket_count - 1 |->
                                          IF i < rt.bucket_count
                                          THEN rt.buckets[i] ELSE ZeroBucket]],
              ok |-> TRUE, hang |-> FALSE, asserts |-> asserts]

robin_table_resize(rt, bucket_count, alloc_ok) ==
    LET asserts == /\ BitAnd(bucket_count, bucket_count - 1) = 0
                   /\ bucket_count > rt.count
    IN  IF ~alloc_ok
        THEN [rt |-> rt, ok |-> FALSE, hang |-> FALSE, asserts |-> asserts]
        ELSE LET r == resize_loop(FreshTable(rt, bucket_count),
                                  rt.buckets, rt.bucket_count, 0, FALSE)
             IN  [rt |-> r.rt, ok |-> TRUE, hang |-> r.hang, asserts |-> asserts]

\* mutant of NeedExpand: the table never grows
NeedExpand_Never(rt) == FALSE

\* mutant of NeedExpand: the table grows only above the threshold
NeedExpand_Above(rt) == rt.count > rt.expand_at

\* put: the table has reached its maximum load
NeedExpand(rt) == rt.count >= rt.expand_at

(***************************************************************************)
(* robin_table_put.  resized tells whether resize was called and           *)
(* succeeded.                                                              *)
(***************************************************************************)
\* mutant of robin_table_put: a key that is stored is returned before the
\* growth test
robin_table_put_LookupFirst(rt, key, klen, val, alloc_ok) ==
    LET pre == key # NoKey /\ klen # 0
        at  == {i \in DOMAIN rt.buckets : rt.buckets[i].key = key}
    IN  IF at # {}
        THEN [rt |-> rt, ret |-> rt.buckets[CHOOSE i \in at : TRUE].val,
              hang |-> FALSE, asserts |-> pre, resized |-> FALSE]
        ELSE IF NeedExpand(rt)
        THEN LET g == robin_table_resize(rt, rt.bucket_count * 2, alloc_ok)
             IN  IF ~g.ok
                 THEN [rt |-> rt, ret |-> NULL, hang |-> FALSE,
                       asserts |-> pre /\ g.asserts, resized |-> FALSE]
                 ELSE LET r == robin_table_put0(g.rt, key, klen, val)
                      IN  [rt |-> r.rt, ret |-> r.ret, hang |-> r.hang,
                           asserts |-> pre /\ g.asserts, resized |-> TRUE]
        ELSE LET r == robin_table_put0(rt, key, klen, val)
             IN  [rt |-> r.rt, ret |-> r.ret, hang |-> r.hang,
                  asserts |-> pre, resized |-> FALSE]

\* mutant of robin_table_put: the result of resize is not checked
robin_table_put_IgnoreFail(rt, key, klen, val, alloc_ok) ==
    LET pre == key # NoKey /\ klen # 0
    IN  IF NeedExpand(rt)
        THEN LET g == robin_table_resize(rt, rt.bucket_count * 2, alloc_ok)
                 r == robin_table_put0(g.rt, key, klen, val)
             IN  [rt |-> r.rt, ret |-> r.ret, hang |-> r.hang,
                  asserts |-> pre /\ g.asserts, resized |-> g.ok]
        ELSE LET r == robin_table_put0(rt, key, klen, val)
             IN  [rt |-> r.rt, ret |-> r.ret, hang |-> r.hang,
                  asserts |-> pre, resized |-> FALSE]

robin_table_put(rt, key, klen, val, alloc_ok) ==
    LET pre == key # NoKey /\ klen # 0
    IN  IF NeedExpand(rt)
        THEN LET g == robin_table_resize(rt, rt.bucket_count * 2, alloc_ok)
             IN  IF ~g.ok
                 THEN [rt |-> rt, ret |-> NULL, hang |-> FALSE,
                       asserts |-> pre /\ g.asserts, resized |-> FALSE]
                 ELSE IF g.hang
                 THEN [rt |-> g.rt, ret |-> NULL, hang |-> TRUE,
                       asserts |-> pre /\ g.asserts, resized |-> TRUE]
                 ELSE LET r == robin_table_put0(g.rt, key, klen, val)
                      IN  [rt |-> r.rt, ret |-> r.ret, hang |-> r.hang,
                           asserts |-> pre /\ g.asserts, resized |-> TRUE]
        ELSE LET r == robin_table_put0(rt, key, klen, val)
             IN  [rt |-> r.rt, ret |-> r.ret, hang |-> r.hang,
                  asserts |-> pre, resized |-> FALSE]

----------------------------------------------------------------------------
\* "no bucket": the NULL result of get_bucket
NoBucket == -1

\* mutant of ProbeStop: a bucket of equal psl ends the probe too
ProbeStop_OrEqual(bucket, psl) == bucket.key = NoKey \/ bucket.psl <= psl

\* get_bucket: an empty bucket or a "rich" bucket ends the probe
ProbeStop(bucket, psl) == bucket.key = NoKey \/ bucket.psl < psl

(***************************************************************************)
(* robin_table_get_bucket: the index of the bucket holding the key, or     *)
(* NoBucket.  hang as in put0.                                             *)
(***************************************************************************)
RECURSIVE get_bucket_loop(_, _, _, _, _, _)
get_bucket_loop(rt, key, klen, hash, idx, psl) ==
    LET bucket == rt.buckets[idx]
    IN  IF psl > rt.bucket_count
        THEN [idx |-> NoBucket, steps |-> psl, hang |-> TRUE]
        ELSE IF KeyMatch(bucket, hash, key, klen)
        THEN [idx |-> idx, steps |-> psl, hang |-> FALSE]
        ELSE IF ProbeStop(bucket, psl)
        THEN [idx |-> NoBucket, steps |-> psl, hang |-> FALSE]
        ELSE get_bucket_loop(rt, key, klen, hash, BitAnd(idx + 1, rt.mask), psl + 1)

robin_table_get_bucket(rt, key, klen) ==
    LET hash == hash_func(rt.hash_func, key, klen, rt.seed)
    IN  get_bucket_loop(rt, key, klen, hash, BitAnd(hash, rt.mask), 0)

robin_table_get(rt, key, klen) ==
    LET b == robin_table_get_bucket(rt, key, klen)
    IN  IF b.idx # NoBucket THEN rt.buckets[b.idx].val ELSE NULL

----------------------------------------------------------------------------
\* mutant of ShiftStop: a bucket in its ideal position is shifted back too
ShiftStop_EmptyOnly(next_bucket) == next_bucket.key = NoKey

\* mutant of ShiftStop: the bucket of the key is cleared and nothing is shifted
ShiftStop_AtOnce(next_bucket) == TRUE

\* del: the backward shift ends at an empty bucket or at one in its ideal position
ShiftStop(next_bucket) == next_bucket.key = NoKey \/ next_bucket.psl = 0

\* mutant of ShiftBack: the psl of the moved entry is not decremented
ShiftBack_KeepPsl(buckets, b, idx) == [buckets EXCEPT ![b] = buckets[idx]]

\* del: one backward move, --next_bucket->psl; *bucket = *next_bucket
ShiftBack(buckets, b, idx) ==
    LET moved == [buckets[idx] EXCEPT !.psl = @ - 1]
    IN  [buckets EXCEPT ![idx] = moved, ![b] = moved]

\* mutant of Vacate: only the key pointer of the freed bucket is reset
Vacate_KeyOnly(rt, b) == [rt EXCEPT !.buckets[b].key = NoKey, !.count = @ - 1]

\* mutant of Vacate: the freed bucket is not cleared
Vacate_NoClear(rt, b) == [rt EXCEPT !.count = @ - 1]

\* del: memset(bucket, 0, sizeof(*bucket)); --rt->count
Vacate(rt, b) == [rt EXCEPT !.buckets[b] = ZeroBucket, !.count = @ - 1]

(***************************************************************************)
(* The backward shift loop of robin_table_del: b is the index of `bucket`, *)
(* which is also the value of idx before its increment.                    *)
(***************************************************************************)
RECURSIVE del_shift(_, _, _)
del_shift(rt, b, steps) ==
    LET idx         == BitAnd(b + 1, rt.mask)
        next_bucket == rt.buckets[idx]
    IN  IF steps > rt.bucket_count
        THEN [rt |-> rt, steps |-> steps, hang |-> TRUE]
        ELSE IF ShiftStop(next_bucket)
        THEN [rt |-> Vacate(rt, b), steps |-> steps, hang |-> FALSE]
        ELSE del_shift([rt EXCEPT !.buckets = ShiftBack(rt.buckets, b, idx)],
                       idx, steps + 1)

\* mutant of NeedShrink: the initial bucket count is not a floor
NeedShrink_NoFloor(rt) == rt.count <= rt.shrink_at

\* mutant of NeedShrink: the comparison with init_buckets is inverted
NeedShrink_Inverted(rt) ==
    rt.bucket_count < rt.init_buckets /\ rt.count <= rt.shrink_at

\* mutant of NeedShrink: the table shrinks only below its minimum load
NeedShrink_Strict(rt) == rt.bucket_count > rt.init_buckets /\ rt.count < rt.shrink_at

\* del: the table is larger than it was created and has reached its minimum load
NeedShrink(rt) == rt.bucket_count > rt.init_buckets /\ rt.count <= rt.shrink_at

(***************************************************************************)
(* robin_table_del.  found tells whether the key was stored; resized       *)
(* whether the shrink was called and succeeded.                            *)
(***************************************************************************)
\* mutant of robin_table_del: the shrink is also tried when the key is absent
robin_table_del_ShrinkAnyway(rt, key, klen, alloc_ok) ==
    LET pre == key # NoKey /\ klen # 0
        b   == robin_table_get_bucket(rt, key, klen)
        val == IF b.idx = NoBucket THEN NULL ELSE rt.buckets[b.idx].val
        d   == IF b.idx = NoBucket
               THEN [rt |-> rt, steps |-> 0, hang |-> b.hang]
               ELSE del_shift(rt, b.idx, 0)
    IN  IF ~d.hang /\ NeedShrink(d.rt)
        THEN LET g == robin_table_resize(d.rt, Shr(d.rt.bucket_count, 1), alloc_ok)
             IN  [rt |-> g.rt, ret |-> val, hang |-> g.hang,
                  asserts |-> pre /\ g.asserts,
                  found |-> b.idx # NoBucket, resized |-> g.ok]
        ELSE [rt |-> d.rt, ret |-> val, hang |-> d.hang, asserts |-> pre,
              found |-> b.idx # NoBucket, resized |-> FALSE]

\* mutant of robin_table_del: the shrink is repeated while its test holds
robin_table_del_ShrinkTwice(rt, key, klen, alloc_ok) ==
    LET pre == key # NoKey /\ klen # 0
        b   == robin_table_get_bucket(rt, key, klen)
    IN  IF b.idx = NoBucket
        THEN [rt |-> rt, ret |-> NULL, hang |-> b.hang, asserts |-> pre,
              found |-> FALSE, resized |-> FALSE]
        ELSE LET val == rt.buckets[b.idx].val
                 d   == del_shift(rt, b.idx, 0)
             IN  IF ~d.hang /\ NeedShrink(d.rt)
                 THEN LET g == robin_table_resize(d.rt, Shr(d.rt.bucket_count, 1), alloc_ok)
                          h == IF g.ok /\ NeedShrink(g.rt)
                               THEN robin_table_resize(g.rt, Shr(g.rt.bucket_count, 1), alloc_ok)
                               ELSE g
                      IN  [rt |-> h.rt, ret |-> val, hang |-> h.hang,
                           asserts |-> pre /\ g.asserts /\ h.asserts,
                           found |-> TRUE, resized |-> g.ok]
                 ELSE [rt |-> d.rt, ret |-> val, hang |-> d.hang, asserts |-> pre,
                       found |-> TRUE, resized |-> FALSE]

robin_table_del(rt, key, klen, alloc_ok) ==
    LET pre == key # NoKey /\ klen # 0
        b   == robin_table_get_bucket(rt, key, klen)
    IN  IF b.idx = NoBucket
        THEN [rt |-> rt, ret |-> NULL, hang |-> b.hang, asserts |-> pre,
              found |-> FALSE, resized |-> FALSE]
        ELSE LET val == rt.buckets[b.idx].val
                 d   == del_shift(rt, b.idx, 0)
             IN  IF ~d.hang /\ NeedShrink(d.rt)
                 THEN LET g == robin_table_resize(d.rt, Shr(d.rt.bucket_count, 1), alloc_ok)
                      IN  [rt |-> g.rt, ret |-> val, hang |-> g.hang,
                           asserts |-> pre /\ g.asserts,
                           found |-> TRUE, resized |-> g.ok]
                 ELSE [rt |-> d.rt, ret |-> val, hang |-> d.hang, asserts |-> pre,
                       found |-> TRUE, resized |-> FALSE]

----------------------------------------------------------------------------
(***************************************************************************)
(* robin_table_clear.  alloc_ok is the outcome of malloc, which is only    *)
(* called with update_buckets; the new array is memset before use.         *)
(***************************************************************************)
\* mutant of robin_table_clear: the count is reset before malloc is checked
robin_table_clear_ResetFirst(rt, update_buckets, alloc_ok) ==
    IF update_buckets /\ ~alloc_ok
    THEN [rt |-> [rt EXCEPT !.count = 0], ret |-> FALSE]
    ELSE LET bucket_count == IF update_buckets THEN rt.init_buckets ELSE rt.bucket_count
             rt1 == IF update_buckets
                    THEN [rt EXCEPT !.bucket_count = bucket_count,
                                    !.mask         = bucket_count - 1,
                                    !.expand_at    = ExpandAt(bucket_count),
                                    !.shrink_at    = ShrinkAt(bucket_count)]
                    ELSE rt
         IN  [rt  |-> [rt1 EXCEPT !.count = 0,
                                  !.buckets = ZeroBuckets(rt1.bucket_count)],
              ret |-> TRUE]

\* mutant of robin_table_clear: the memset is only done on a new array
robin_table_clear_NoMemset(rt, update_buckets, alloc_ok) ==
    IF update_buckets /\ ~alloc_ok
    THEN [rt |-> rt, ret |-> FALSE]
    ELSE IF update_buckets
    THEN [rt  |-> [rt EXCEPT !.count        = 0,
                             !.buckets      = ZeroBuckets(rt.init_buckets),
                             !.bucket_count = rt.init_buckets,
                             !.mask         = rt.init_buckets - 1,
                             !.expand_at    = ExpandAt(rt.init_buckets),
                             !.shrink_at    = ShrinkAt(rt.init_buckets)],
          ret |-> TRUE]
    ELSE [rt |-> [rt EXCEPT !.count = 0], ret |-> TRUE]

\* mutant of robin_table_clear: the thresholds of the old array are kept
robin_table_clear_StaleThresholds(rt, update_buckets, alloc_ok) ==
    IF update_buckets /\ ~alloc_ok
    THEN [rt |-> rt, ret |-> FALSE]
    ELSE LET bucket_count == IF update_buckets THEN rt.init_buckets ELSE rt.bucket_count
             rt1 == IF update_buckets
                    THEN [rt EXCEPT !.bucket_count = bucket_count,
                                    !.mask         = bucket_count - 1]
                    ELSE rt
         IN  [rt  |-> [rt1 EXCEPT !.count = 0,
                                  !.buckets = ZeroBuckets(rt1.bucket_count)],
              ret |-> TRUE]

robin_table_clear(rt, update_buckets, alloc_ok) ==
    IF update_buckets /\ ~alloc_ok
    THEN [rt |-> rt, ret |-> FALSE]
    ELSE LET bucket_count == IF update_buckets THEN rt.init_buckets ELSE rt.bucket_count
             rt1 == IF update_buckets
                    THEN [rt EXCEPT !.bucket_count = bucket_count,
                                    !.mask         = bucket_count - 1,
                                    !.expand_at    = ExpandAt(bucket_count),
                                    !.shrink_at    = ShrinkAt(bucket_count)]
                    ELSE rt
         IN  [rt  |-> [rt1 EXCEPT !.count = 0,
                                  !.buckets = ZeroBuckets(rt1.bucket_count)],
              ret |-> TRUE]

robin_table_count(rt) == rt.count

\* mutant of psl_max_higher: the psl of the bucket is not compared with max_psl
psl_max_higher_Any(bucket, max_psl) == bucket.key # NoKey

\* psl_max: bucket->key && bucket->psl > max_psl
psl_max_higher(bucket, max_psl) == bucket.key # NoKey /\ bucket.psl > max_psl

(***************************************************************************)
(* robin_table_psl_max: the scan of all buckets from index i on.  asserts  *)
(* is FALSE when RT_ASSERT(rt->count != 0) does not hold.                  *)
(***************************************************************************)
RECURSIVE psl_max_loop(_, _, _)
psl_max_loop(rt, i, max_psl) ==
    IF i < rt.bucket_count
    THEN IF psl_max_higher(rt.buckets[i], max_psl)
         THEN psl_max_loop(rt, i + 1, rt.buckets[i].psl)
         ELSE psl_max_loop(rt, i + 1, max_psl)
    ELSE max_psl

robin_table_psl_max(rt) ==
    [asserts |-> rt.count # 0, ret |-> psl_max_loop(rt, 0, 0)]

----------------------------------------------------------------------------
(***************************************************************************)
(* The iterator (robin_table_iter_impl_t): the exposed key and val and the *)
(* cursor idx, a size_t: iter_create stores (size_t)-1, which is SIZE_MAX,  *)
(* and ++idx wraps from SIZE_MAX to 0.                                     *)
(***************************************************************************)
\* mutant of robin_table_iter_create: the cursor starts on the first bucket
robin_table_iter_create_AtZero(t) == [key |-> NoKey, val |-> NULL, idx |-> 0]

robin_table_iter_create(t) == [key |-> NoKey, val |-> NULL, idx |-> SIZE_MAX]

\* the while loop of iter_next: the result and the iterator after the call
RECURSIVE iter_scan(_, _)
iter_scan(t, idx) ==
    LET idx1 == (idx + 1) % (SIZE_MAX + 1)
    IN  IF idx1 < t.bucket_count
        THEN IF t.buckets[idx1].key # NoKey
             THEN [ret |-> TRUE,
                   it  |-> [key |-> t.buckets[idx1].key, val |-> t.buckets[idx1].val,
                            idx |-> idx1]]
             ELSE iter_scan(t, idx1)
        ELSE [ret |-> FALSE, it |-> [key |-> NoKey, val |-> NULL, idx |-> idx1]]

robin_table_iter_next(t, it) == iter_scan(t, it.idx)

\* the caller's loop `while (iter_next(iter)) ++iter_count`, collecting what
\* the iterator exposes at each turn
RECURSIVE iterate(_, _, _)
iterate(t, it, out) ==
    LET r == robin_table_iter_next(t, it)
    IN  IF r.ret
        THEN iterate(t, r.it, Append(out, [key |-> r.it.key, val |-> r.it.val]))
        ELSE out

FullIteration(t) == iterate(t, robin_table_iter_create(t), << >>)

----------------------------------------------------------------------------
(***************************************************************************)
(* The caller.  As in test/t_robin_table.c it owns an array of distinct    *)
(* keys which it puts in index order with temp_val, here in two runs, and  *)
(* deletes run by run; next to them it puts, gets and deletes the keys of  *)
(* ActiveKeys one call at a time with any value.                           *)
(***************************************************************************)
NBulk == BulkLow + BulkMore
Max(a, b) == IF a > b THEN a ELSE b
\* the least count whose product with 100 is more than SIZE_MAX
Overflowing == SIZE_MAX \div 100 + 1
keys == [i \in 1 .. Max(Max(Max(Max(NBulk, GrowthPuts), MaxExpected), DrainPuts),
                        Overflowing) |->
            << i + 2 >>]
ActiveKeys == { << 1 >>, << 1, 2 >> }
\* the keys whose calls the reference map follows
AllKeys == ActiveKeys \cup {keys[i] : i \in 1 .. Max(NBulk, GrowthPuts)}
InitCounts == {0}
Seeds == {0}

\* the loop `for (i...) res = put(rt, keys[i], temp_val)` over keys[i .. hi];
\* good counts the calls with res == temp_val
RECURSIVE put_run(_, _, _, _)
put_run(acc, i, hi, alloc_ok) ==
    IF i > hi \/ acc.hang
    THEN acc
    ELSE LET r == robin_table_put(acc.rt, keys[i], Len(keys[i]), temp_val, alloc_ok)
         IN  put_run([rt      |-> r.rt,
                      good    |-> acc.good + (IF r.ret = temp_val THEN 1 ELSE 0),
                      hang    |-> r.hang,
                      asserts |-> acc.asserts /\ r.asserts,
                      resized |-> acc.resized \/ r.resized],
                     i + 1, hi, alloc_ok)

\* the loop `for (i...) res = del(rt, keys[i])` over keys[i .. hi]
RECURSIVE del_run(_, _, _, _)
del_run(acc, i, hi, alloc_ok) ==
    IF i > hi \/ acc.hang
    THEN acc
    ELSE LET r == robin_table_del(acc.rt, keys[i], Len(keys[i]), alloc_ok)
         IN  del_run([rt      |-> r.rt,
                      good    |-> acc.good + (IF r.ret = temp_val THEN 1 ELSE 0),
                      hang    |-> r.hang,
                      asserts |-> acc.asserts /\ r.asserts,
                      resized |-> acc.resized \/ r.resized],
                     i + 1, hi, alloc_ok)

RunStart(t) == [rt |-> t, good |-> 0, hang |-> FALSE, asserts |-> TRUE, resized |-> FALSE]

(***************************************************************************)
(* The reference: a first-writer-wins map from keys to values.             *)
(***************************************************************************)
RefEmpty == [k \in AllKeys |-> NULL]
RefPut(m, k, v) == IF m[k] = NULL THEN [m |-> [m EXCEPT ![k] = v], ret |-> v]
                                  ELSE [m |-> m, ret |-> m[k]]
RefGet(m, k) == m[k]
RefDel(m, k) == [m |-> [m EXCEPT ![k] = NULL], ret |-> m[k]]
RefCount(m) == Cardinality({k \in AllKeys : m[k] # NULL})

RECURSIVE RefPutRun(_, _, _)
RefPutRun(acc, i, hi) ==
    IF i > hi THEN acc
    ELSE LET r == RefPut(acc.m, keys[i], temp_val)
         IN  RefPutRun([m |-> r.m, good |-> acc.good + (IF r.ret = temp_val THEN 1 ELSE 0)],
                       i + 1, hi)

RECURSIVE RefDelRun(_, _, _)
RefDelRun(acc, i, hi) ==
    IF i > hi THEN acc
    ELSE LET r == RefDel(acc.m, keys[i])
         IN  RefDelRun([m |-> r.m, good |-> acc.good + (IF r.ret = temp_val THEN 1 ELSE 0)],
                       i + 1, hi)

----------------------------------------------------------------------------
VARIABLES
    rt,       \* the table (struct robin_table_t and its bucket array)
    last,     \* the last call: its name, arguments, result and what it did
    filled,   \* how many keys of the key array the caller has put
    ref,      \* the reference map driven by the same calls
    ref_ret,  \* what the reference returned for the last call
    peer,     \* a second table with another hash function that is given the
              \* same calls, and what its last call returned; NoPeer if none
    iter      \* the caller's iterator (robin_table_iter_impl_t); NoIter if none

vars == << rt, last, filled, ref, ref_ret, peer, iter >>

NoPeer == [rt |-> NULL, ret |-> NULL]

\* no iterator: none was created, or iter_create returned NULL
NoIter == [key |-> NoKey, val |-> NULL, idx |-> -1]

DelOps == {"del", "del_nomem"}
PutOps == {"put", "put_nomem"}

\* after_del: the call is a put of the key that the call before it deleted
Call(op, key, val, ret, r) ==
    [op |-> op, key |-> key, val |-> val, ret |-> ret,
     hang |-> r.hang, asserts |-> r.asserts, resized |-> r.resized,
     after_del |-> /\ op \in PutOps
                   /\ last.op \in DelOps /\ last.key = key /\ last.ret # NULL]

Quiet == [hang |-> FALSE, asserts |-> TRUE, resized |-> FALSE]

Init ==
    /\ \E n \in InitCounts, hf \in HashFuncs, seed \in Seeds :
           rt = robin_table_create(n, hf, seed)
    /\ last = [op |-> "create", key |-> NoKey, val |-> NULL, ret |-> NULL,
               hang |-> FALSE, asserts |-> TRUE, resized |-> FALSE,
               after_del |-> FALSE]
    /\ filled = 0
    /\ ref = RefEmpty
    /\ ref_ret = NULL
    /\ peer = NoPeer
    /\ iter = NoIter

\* put(key, val); the growth it may need gets its memory
Put(key, val) ==
    LET r == robin_table_put(rt, key, Len(key), val, TRUE)
        m == RefPut(ref, key, val)
    IN  /\ rt' = r.rt
        /\ last' = Call("put", key, val, r.ret, r)
        /\ ref' = m.m
        /\ ref_ret' = m.ret
        /\ UNCHANGED << filled, peer, iter >>

\* put(key, val) when the table must grow and calloc fails
PutNoMem(key, val) ==
    LET r == robin_table_put(rt, key, Len(key), val, FALSE)
    IN  /\ NeedExpand(rt)
        /\ rt' = r.rt
        /\ last' = Call("put_nomem", key, val, r.ret, r)
        /\ ref_ret' = NULL
        /\ UNCHANGED << filled, ref, peer, iter >>

Get(key) ==
    /\ last' = Call("get", key, NULL, robin_table_get(rt, key, Len(key)), Quiet)
    /\ ref_ret' = RefGet(ref, key)
    /\ UNCHANGED << rt, filled, ref, peer, iter >>

\* del(key); the shrink it may trigger gets its memory
Del(key) ==
    LET r == robin_table_del(rt, key, Len(key), TRUE)
        m == RefDel(ref, key)
    IN  /\ rt' = r.rt
        /\ last' = Call("del", key, NULL, r.ret, r)
        /\ ref' = m.m
        /\ ref_ret' = m.ret
        /\ UNCHANGED << filled, peer, iter >>

\* del(key) when the delete triggers a shrink and calloc fails
DelNoMem(key) ==
    LET r == robin_table_del(rt, key, Len(key), FALSE)
        m == RefDel(ref, key)
    IN  /\ robin_table_del(rt, key, Len(key), TRUE).resized
        /\ rt' = r.rt
        /\ last' = Call("del_nomem", key, NULL, r.ret, r)
        /\ ref' = m.m
        /\ ref_ret' = m.ret
        /\ UNCHANGED << filled, peer, iter >>

Clear(update_buckets) ==
    LET r == robin_table_clear(rt, update_buckets, TRUE)
    IN  /\ rt' = r.rt
        /\ last' = Call("clear", NoKey, IF update_buckets THEN 1 ELSE 0,
                        IF r.ret THEN 1 ELSE 0,
                        [Quiet EXCEPT
                            !.resized = r.rt.bucket_count # rt.bucket_count])
        /\ filled' = 0
        /\ ref' = RefEmpty
        /\ ref_ret' = 1
        /\ UNCHANGED << peer, iter >>

\* clear(rt, true) when malloc fails
ClearNoMem ==
    LET r == robin_table_clear(rt, TRUE, FALSE)
    IN  /\ rt' = r.rt
        /\ last' = Call("clear_nomem", NoKey, 1, IF r.ret THEN 1 ELSE 0, Quiet)
        /\ ref_ret' = 0
        /\ UNCHANGED << filled, ref, peer, iter >>

Count ==
    /\ last' = Call("count", NoKey, NULL, robin_table_count(rt), Quiet)
    /\ ref_ret' = RefCount(ref)
    /\ UNCHANGED << rt, filled, ref, peer, iter >>

NextFill == IF filled < BulkLow THEN BulkLow ELSE NBulk
PrevFill == IF filled > BulkLow THEN BulkLow ELSE 0

\* the caller's put loop over the next run of its key array
PutRun ==
    LET r == put_run(RunStart(rt), filled + 1, NextFill, TRUE)
        m == RefPutRun([m |-> ref, good |-> 0], filled + 1, NextFill)
    IN  /\ filled < NBulk
        /\ rt' = r.rt
        /\ last' = Call("put_run", NoKey, temp_val, r.good, r)
        /\ filled' = NextFill
        /\ ref' = m.m
        /\ ref_ret' = m.good
        /\ UNCHANGED << peer, iter >>

\* the caller's del loop over the last run it has put
DelRun ==
    LET r == del_run(RunStart(rt), PrevFill + 1, filled, TRUE)
        m == RefDelRun([m |-> ref, good |-> 0], PrevFill + 1, filled)
    IN  /\ filled > 0
        /\ rt' = r.rt
        /\ last' = Call("del_run", NoKey, NULL, r.good, r)
        /\ filled' = PrevFill
        /\ ref' = m.m
        /\ ref_ret' = m.good
        /\ UNCHANGED << peer, iter >>

NextNoFail ==
    \/ \E key \in ActiveKeys, val \in Vals : Put(key, val)
    \/ \E key \in ActiveKeys : Get(key)
    \/ \E key \in ActiveKeys : Del(key)
    \/ \E update_buckets \in BOOLEAN : Clear(update_buckets)
    \/ Count
    \/ PutRun
    \/ DelRun

Next ==
    \/ NextNoFail
    \/ \E key \in ActiveKeys, val \in Vals : PutNoMem(key, val)
    \/ \E key \in ActiveKeys : DelNoMem(key)
    \/ ClearNoMem

\* every call, with allocation failures
Spec == Init /\ [][Next]_vars

\* every call, no allocation fails
SpecNoFail == Init /\ [][NextNoFail]_vars

----------------------------------------------------------------------------
(***************************************************************************)
(* Creation.  As in test_put_int the caller creates a table for n entries  *)
(* and puts the first n keys of its key array; every n up to MaxExpected   *)
(* is tried.  The caller also creates a table for the least n for which    *)
(* n * 100 overflows.  last.val of the create call is its count.  The      *)
(* reference map is not driven here.                                       *)
(***************************************************************************)
CreateCounts == 0 .. MaxExpected \cup {Overflowing}

CreateInit ==
    /\ \E n \in CreateCounts, hf \in HashFuncs, seed \in Seeds :
           /\ rt = robin_table_create(n, hf, seed)
           /\ last = [op |-> "create", key |-> NoKey, val |-> n, ret |-> NULL,
                      hang |-> FALSE, asserts |-> TRUE, resized |-> FALSE,
                      after_del |-> FALSE]
    /\ filled = 0
    /\ ref = RefEmpty
    /\ ref_ret = NULL
    /\ peer = NoPeer
    /\ iter = NoIter

\* the put loop over keys[1 .. n], for the counts up to MaxExpected
CreateFill ==
    LET r == put_run(RunStart(rt), 1, last.val, TRUE)
    IN  /\ last.op = "create"
        /\ last.val <= MaxExpected
        /\ rt' = r.rt
        /\ last' = Call("put_run", NoKey, temp_val, r.good, r)
        /\ filled' = last.val
        /\ UNCHANGED << ref, ref_ret, peer, iter >>

CreateNext == CreateFill

\* a table is created for any count and filled with that many keys
SpecCreate == CreateInit /\ [][CreateNext]_vars

----------------------------------------------------------------------------
(***************************************************************************)
(* The growth and shrink scenario.  The caller creates a table for 0       *)
(* entries, puts the first GrowthPuts keys of its key array one call at a  *)
(* time and then deletes ShrinkDels of them, all but the last put, one     *)
(* call at a time: it starts with any of them and goes on with a key next  *)
(* to one it has deleted, the key array being taken as a ring.  No         *)
(* allocation fails.                                                       *)
(***************************************************************************)
ScenarioDeleted == filled - RefCount(ref)
ScenarioRing == 1 .. GrowthPuts - 1
ScenarioSucc(i) == IF i = GrowthPuts - 1 THEN 1 ELSE i + 1
ScenarioPred(i) == IF i = 1 THEN GrowthPuts - 1 ELSE i - 1

ScenarioPut ==
    LET key == keys[filled + 1]
        r == robin_table_put(rt, key, Len(key), temp_val, TRUE)
        m == RefPut(ref, key, temp_val)
    IN  /\ filled < GrowthPuts
        /\ last.op \in {"create", "put"}
        /\ rt' = r.rt
        /\ last' = Call("put", key, temp_val, r.ret, r)
        /\ filled' = filled + 1
        /\ ref' = m.m
        /\ ref_ret' = m.ret
        /\ UNCHANGED << peer, iter >>

ScenarioDel(i) ==
    LET key == keys[i]
        r == robin_table_del(rt, key, Len(key), TRUE)
        m == RefDel(ref, key)
    IN  /\ filled = GrowthPuts
        /\ ScenarioDeleted < ShrinkDels
        /\ ref[key] # NULL
        /\ \/ ScenarioDeleted = 0
           \/ ref[keys[ScenarioSucc(i)]] = NULL
           \/ ref[keys[ScenarioPred(i)]] = NULL
        /\ rt' = r.rt
        /\ last' = Call("del", key, NULL, r.ret, r)
        /\ ref' = m.m
        /\ ref_ret' = m.ret
        /\ UNCHANGED << filled, peer, iter >>

ScenarioStep ==
    \/ ScenarioPut
    \/ \E i \in ScenarioRing : ScenarioDel(i)

\* the growth and shrink scenario, from create(0)
SpecScenario == Init /\ [][ScenarioStep]_vars

----------------------------------------------------------------------------
(***************************************************************************)
(* Fill and drain.  The caller creates a table for 0 entries, puts the     *)
(* first keys of its key array one call at a time, DrainPuts at most, and  *)
(* then deletes them in the order it put them, one call at a time.  The    *)
(* calloc of a shrink succeeds or fails, so that the table can stay two    *)
(* halvings above the size its count asks for.                             *)
(***************************************************************************)
DrainDeleted == filled - rt.count

DrainPut ==
    /\ filled < DrainPuts
    /\ DrainDeleted = 0
    /\ \E r \in {robin_table_put(rt, keys[filled + 1], Len(keys[filled + 1]),
                                temp_val, TRUE)} :
           /\ rt' = r.rt
           /\ last' = Call("put", keys[filled + 1], temp_val, r.ret, r)
    /\ filled' = filled + 1
    /\ UNCHANGED << ref, ref_ret, peer, iter >>

DrainDel(alloc_ok) ==
    /\ rt.count > 0
    /\ alloc_ok \/ NeedShrink([rt EXCEPT !.count = @ - 1])
    /\ \E r \in {robin_table_del(rt, keys[DrainDeleted + 1],
                                Len(keys[DrainDeleted + 1]), alloc_ok)} :
           /\ rt' = r.rt
           /\ last' = Call(IF alloc_ok THEN "del" ELSE "del_nomem",
                           keys[DrainDeleted + 1], NULL, r.ret, r)
    /\ UNCHANGED << filled, ref, ref_ret, peer, iter >>

DrainNext ==
    \/ DrainPut
    \/ \E alloc_ok \in BOOLEAN : DrainDel(alloc_ok)

\* the fill-and-drain caller, from create(0)
SpecDrain == Init /\ [][DrainNext]_vars

\* as test_consistency tries to overwrite an entry: the caller puts again the
\* key it has put last, before it deletes any
PutAgain ==
    /\ filled > 0
    /\ DrainDeleted = 0
    /\ \E r \in {robin_table_put(rt, keys[filled], Len(keys[filled]),
                                temp_val, TRUE)} :
           /\ rt' = r.rt
           /\ last' = Call("put", keys[filled], temp_val, r.ret, r)
    /\ UNCHANGED << filled, ref, ref_ret, peer, iter >>

\* the caller deletes again the key it has deleted last
DelAgain ==
    /\ DrainDeleted > 0
    /\ \E r \in {robin_table_del(rt, keys[DrainDeleted], Len(keys[DrainDeleted]),
                                TRUE)} :
           /\ rt' = r.rt
           /\ last' = Call("del", keys[DrainDeleted], NULL, r.ret, r)
    /\ UNCHANGED << filled, ref, ref_ret, peer, iter >>

PutDelNext ==
    \/ DrainPut
    \/ DrainDel(TRUE)
    \/ PutAgain
    \/ DelAgain

\* the fill-and-drain caller when no allocation fails, with puts of stored
\* keys and dels of absent ones; the table is never cleared
SpecPutDel == Init /\ [][PutDelNext]_vars

----------------------------------------------------------------------------
(***************************************************************************)
(* Iteration.  As in test_iterate_str the caller creates a table for 0     *)
(* entries, puts the first keys of its key array one call at a time,       *)
(* IterPuts at most, creates an iterator and calls iter_next on it, any    *)
(* number of times; the table is not modified once the iterator exists.    *)
(* alloc_ok is the outcome of the malloc of iter_create.                   *)
(***************************************************************************)
IterPut ==
    /\ filled < IterPuts
    /\ last.op \in {"create", "put"}
    /\ \E r \in {robin_table_put(rt, keys[filled + 1], Len(keys[filled + 1]),
                                temp_val, TRUE)} :
           /\ rt' = r.rt
           /\ last' = Call("put", keys[filled + 1], temp_val, r.ret, r)
    /\ filled' = filled + 1
    /\ UNCHANGED << ref, ref_ret, peer, iter >>

IterCreate(alloc_ok) ==
    /\ last.op \in {"create", "put"}
    /\ iter' = IF alloc_ok THEN robin_table_iter_create(rt) ELSE NoIter
    /\ last' = Call(IF alloc_ok THEN "iter_create" ELSE "iter_create_nomem",
                    NoKey, NULL, IF alloc_ok THEN 1 ELSE 0, Quiet)
    /\ UNCHANGED << rt, filled, ref, ref_ret, peer >>

\* iter_next; last holds the exposed key and val and 1 for true, 0 for false
IterNext ==
    /\ last.op \in {"iter_create", "iter_next"}
    /\ \E r \in {robin_table_iter_next(rt, iter)} :
           /\ iter' = r.it
           /\ last' = Call("iter_next", r.it.key, r.it.val,
                           IF r.ret THEN 1 ELSE 0, Quiet)
    /\ UNCHANGED << rt, filled, ref, ref_ret, peer >>

IterStep ==
    \/ IterPut
    \/ \E alloc_ok \in BOOLEAN : IterCreate(alloc_ok)
    \/ IterNext

\* the iterating caller, from create(0)
SpecIter == Init /\ [][IterStep]_vars

----------------------------------------------------------------------------
(***************************************************************************)
(* Two tables.  The caller creates two tables with the same count and two  *)
(* different hash functions and makes every call on both; an allocation    *)
(* that one table asks for succeeds or fails as that of the other.  Every  *)
(* hash function is paired with "sum": two tables that both agree with the *)
(* "sum" table on every sequence of calls agree with each other.           *)
(***************************************************************************)
HashPairs == { << "sum", "pair" >>, << "sum", "fold" >>, << "sum", "same" >> }

Peer(ret, r) == [rt |-> r.rt, ret |-> ret]

\* the two tables; every call is made on PairTables[1] and on PairTables[2]
PairTables == << rt, peer.rt >>

PairInit ==
    /\ \E n \in InitCounts, hp \in HashPairs, seed \in Seeds :
           /\ rt = robin_table_create(n, hp[1], seed)
           /\ peer = Peer(NULL, [rt |-> robin_table_create(n, hp[2], seed)])
    /\ last = [op |-> "create", key |-> NoKey, val |-> NULL, ret |-> NULL,
               hang |-> FALSE, asserts |-> TRUE, resized |-> FALSE,
               after_del |-> FALSE]
    /\ filled = 0
    /\ ref = RefEmpty
    /\ ref_ret = NULL
    /\ iter = NoIter

\* put(key, val) on both; alloc_ok is the outcome of calloc if a table grows
PairPut(key, val, alloc_ok) ==
    /\ alloc_ok \/ \E t \in 1 .. 2 : NeedExpand(PairTables[t])
    /\ \E res \in {[t \in 1 .. 2 |->
                       robin_table_put(PairTables[t], key, Len(key), val, alloc_ok)]} :
           /\ rt' = res[1].rt
           /\ peer' = Peer(res[2].ret, res[2])
           /\ last' = Call(IF alloc_ok THEN "put" ELSE "put_nomem",
                           key, val, res[1].ret, res[1])
    /\ \E m \in {IF alloc_ok THEN RefPut(ref, key, val)
                               ELSE [m |-> ref, ret |-> NULL]} :
           ref' = m.m /\ ref_ret' = m.ret
    /\ UNCHANGED << filled, iter >>

PairGet(key) ==
    /\ LET res == [t \in 1 .. 2 |-> robin_table_get(PairTables[t], key, Len(key))]
       IN  /\ last' = Call("get", key, NULL, res[1], Quiet)
           /\ peer' = Peer(res[2], peer)
    /\ ref_ret' = RefGet(ref, key)
    /\ UNCHANGED << rt, filled, ref, iter >>

\* del of key finds it, and the table without it meets the shrink condition
ShrinksOnDel(t, key) ==
    /\ \E i \in DOMAIN t.buckets : t.buckets[i].key = key
    /\ NeedShrink([t EXCEPT !.count = @ - 1])

\* del(key) on both; alloc_ok is the outcome of calloc if a table shrinks
PairDel(key, alloc_ok) ==
    /\ alloc_ok \/ \E t \in 1 .. 2 : ShrinksOnDel(PairTables[t], key)
    /\ \E res \in {[t \in 1 .. 2 |->
                       robin_table_del(PairTables[t], key, Len(key), alloc_ok)]} :
           /\ rt' = res[1].rt
           /\ peer' = Peer(res[2].ret, res[2])
           /\ last' = Call(IF alloc_ok THEN "del" ELSE "del_nomem",
                           key, NULL, res[1].ret, res[1])
    /\ \E m \in {RefDel(ref, key)} : ref' = m.m /\ ref_ret' = m.ret
    /\ UNCHANGED << filled, iter >>

\* clear on both; alloc_ok is the outcome of malloc with update_buckets
PairClear(update_buckets, alloc_ok) ==
    LET res == [t \in 1 .. 2 |->
                   robin_table_clear(PairTables[t], update_buckets, alloc_ok)]
    IN  /\ alloc_ok \/ update_buckets
        /\ rt' = res[1].rt
        /\ peer' = Peer(IF res[2].ret THEN 1 ELSE 0, res[2])
        /\ last' = Call(IF alloc_ok THEN "clear" ELSE "clear_nomem",
                        NoKey, IF update_buckets THEN 1 ELSE 0,
                        IF res[1].ret THEN 1 ELSE 0,
                        [Quiet EXCEPT
                            !.resized = res[1].rt.bucket_count # rt.bucket_count])
        /\ filled' = IF alloc_ok THEN 0 ELSE filled
        /\ ref' = IF alloc_ok THEN RefEmpty ELSE ref
        /\ ref_ret' = IF alloc_ok THEN 1 ELSE 0
        /\ UNCHANGED iter

PairCount ==
    /\ LET res == [t \in 1 .. 2 |-> robin_table_count(PairTables[t])]
       IN  /\ last' = Call("count", NoKey, NULL, res[1], Quiet)
           /\ peer' = Peer(res[2], peer)
    /\ ref_ret' = RefCount(ref)
    /\ UNCHANGED << rt, filled, ref, iter >>

\* the put loop over the next run of the key array, on both
PairPutRun ==
    /\ filled < NBulk
    /\ \E res \in {[t \in 1 .. 2 |->
                       put_run(RunStart(PairTables[t]), filled + 1, NextFill, TRUE)]} :
           /\ rt' = res[1].rt
           /\ peer' = Peer(res[2].good, res[2])
           /\ last' = Call("put_run", NoKey, temp_val, res[1].good, res[1])
    /\ filled' = NextFill
    /\ \E m \in {RefPutRun([m |-> ref, good |-> 0], filled + 1, NextFill)} :
           ref' = m.m /\ ref_ret' = m.good
    /\ UNCHANGED iter

\* the del loop over the last run put, on both
PairDelRun ==
    /\ filled > 0
    /\ \E res \in {[t \in 1 .. 2 |->
                       del_run(RunStart(PairTables[t]), PrevFill + 1, filled, TRUE)]} :
           /\ rt' = res[1].rt
           /\ peer' = Peer(res[2].good, res[2])
           /\ last' = Call("del_run", NoKey, NULL, res[1].good, res[1])
    /\ filled' = PrevFill
    /\ \E m \in {RefDelRun([m |-> ref, good |-> 0], PrevFill + 1, filled)} :
           ref' = m.m /\ ref_ret' = m.good
    /\ UNCHANGED iter

PairNext ==
    \/ \E key \in ActiveKeys, val \in Vals, alloc_ok \in BOOLEAN :
           PairPut(key, val, alloc_ok)
    \/ \E key \in ActiveKeys : PairGet(key)
    \/ \E key \in ActiveKeys, alloc_ok \in BOOLEAN : PairDel(key, alloc_ok)
    \/ \E update_buckets, alloc_ok \in BOOLEAN : PairClear(update_buckets, alloc_ok)
    \/ PairCount
    \/ PairPutRun
    \/ PairDelRun

\* every call, with allocation failures, on two tables
SpecPair == PairInit /\ [][PairNext]_vars

----------------------------------------------------------------------------
(***************************************************************************)
(* What a state of the table holds, read off the bucket array without      *)
(* probing.                                                                *)
(***************************************************************************)
Occupied(t) == {i \in DOMAIN t.buckets : t.buckets[i].key # NoKey}
SlotsOf(t, key) == {i \in DOMAIN t.buckets : t.buckets[i].key = key}
StoredVal(t, key) ==
    IF SlotsOf(t, key) = {} THEN NULL
    ELSE t.buckets[CHOOSE i \in SlotsOf(t, key) : TRUE].val
Lookup(t, key) == robin_table_get(t, key, Len(key))

\* the keys the caller's del loop deletes in the step that is being taken
RunKeys == {keys[i] : i \in PrevFill + 1 .. filled}
\* the step calls del on key
StepDeletes(key) ==
    \/ last'.op \in DelOps /\ last'.key = key
    \/ last'.op = "del_run" /\ key \in RunKeys
\* the step calls clear
StepClears == last'.op \in {"clear", "clear_nomem"}

\* psl is the distance of every entry from its ideal bucket
PslIsDisplacement(t) ==
    \A i \in Occupied(t) :
        t.buckets[i].psl = (i - BitAnd(t.buckets[i].hash, t.mask)) % t.bucket_count
\* no gap before a displaced entry, and psl rises by at most one per bucket
RobinHoodOrdered(t) ==
    \A i \in Occupied(t) :
        t.buckets[i].psl > 0 =>
            LET j == (i - 1) % t.bucket_count
            IN  j \in Occupied(t) /\ t.buckets[j].psl >= t.buckets[i].psl - 1
\* count, mask, thresholds and bucket layout are those of a valid table
ValidTable(t) ==
    /\ t.count = Cardinality(Occupied(t))
    /\ t.mask = t.bucket_count - 1
    /\ PslIsDisplacement(t)
    /\ RobinHoodOrdered(t)
    /\ \A key \in AllKeys : Cardinality(SlotsOf(t, key)) <= 1

----------------------------------------------------------------------------
(***************************************************************************)
(* C1.  With no allocation failure, every put, get, del, clear and count   *)
(* call (and every run of put or del calls) returns what the reference     *)
(* first-writer-wins map returns for the same calls, through every grow    *)
(* and shrink.                                                             *)
(***************************************************************************)
C1_RefinesReference == last.ret = ref_ret

\* a put of a stored key grew the table and returned the bound value, not its own
C1_Witness ==
    /\ last.op = "put" /\ last.resized
    /\ last.ret # last.val /\ last.ret # NULL
    /\ rt.bucket_count > rt.init_buckets

(***************************************************************************)
(* C2.  Round trip: right after a put that returned its own value, get of  *)
(* the key returns that value; and a key that get finds with value v is    *)
(* found with v after every step that neither calls del on that key nor    *)
(* calls clear, whatever the step moves or resizes.                        *)
(***************************************************************************)
C2_Stored ==
    /\ (last.op = "put" /\ last.ret = last.val) => Lookup(rt, last.key) = last.val
    /\ (last.op = "put_run" /\ ~last.hang) =>
           \A i \in 1 .. filled : Lookup(rt, keys[i]) = temp_val
C2_Kept ==
    \A key \in AllKeys :
        (Lookup(rt, key) # NULL /\ ~StepDeletes(key) /\ ~StepClears)
            => Lookup(rt', key) = Lookup(rt, key)
C2_RoundTrip == [](C2_Stored) /\ [][C2_Kept]_vars

\* a del shrank the table and another active key, moved by the reinsertion
\* away from its ideal index, is still stored
C2_Witness ==
    /\ last.op = "del" /\ last.resized
    /\ \E key \in ActiveKeys :
           /\ key # last.key
           /\ \E i \in SlotsOf(rt, key) : rt.buckets[i].psl > 0

C4_DelStep ==
    (last'.op \in DelOps /\ StoredVal(rt, last'.key) # NULL)
        => /\ last'.ret = StoredVal(rt, last'.key)
           /\ Lookup(rt', last'.key) = NULL
           /\ robin_table_count(rt') = robin_table_count(rt) - 1
           /\ \A key \in AllKeys \ {last'.key} :
                  StoredVal(rt, key) # NULL => Lookup(rt', key) = StoredVal(rt, key)
C4_DeletionComplete == [][C4_DelStep]_vars

\* a del removed its key, shrank the table and left other keys in it
C4_Witness ==
    /\ last.op = "del" /\ last.ret # NULL /\ last.resized
    /\ rt.count > 0

(***************************************************************************)
(* C5.  A put whose growth, if any, succeeds returns the supplied value    *)
(* and adds one to count when the key is not stored, and leaves count      *)
(* unchanged when it is; a run of puts of n distinct keys into an empty    *)
(* table as created leaves count = n.                                      *)
(***************************************************************************)
C5_PutStep ==
    /\ (last'.op = "put" /\ StoredVal(rt, last'.key) = NULL)
           => /\ last'.ret = last'.val
              /\ robin_table_count(rt') = robin_table_count(rt) + 1
    /\ (last'.op \in PutOps /\ StoredVal(rt, last'.key) # NULL)
           => robin_table_count(rt') = robin_table_count(rt)
    /\ (last'.op = "put_run" /\ last.op = "create")
           => /\ robin_table_count(rt') = filled'
              /\ last'.ret = filled'
C5_PutCounts == [][C5_PutStep]_vars

\* a put of a new key grew the table and returned its own value
C5_Witness ==
    /\ last.op = "put" /\ last.resized /\ last.ret = last.val
    /\ rt.count = rt.expand_at \div 2 + 1

(***************************************************************************)
(* C6.  Re-insertion: when a put of key k directly follows a del that      *)
(* removed k, get(k) is absent before the put, the put returns its own     *)
(* value and get(k) returns that value after it.                           *)
(***************************************************************************)
C6_ReinsertStep ==
    (last.op \in DelOps /\ last.ret # NULL /\ last'.op \in PutOps /\ last'.key = last.key)
        => /\ Lookup(rt, last.key) = NULL
           /\ last'.ret = last'.val
           /\ Lookup(rt', last.key) = last'.val
C6_Reinsert == [][C6_ReinsertStep]_vars

\* a key deleted with one value was put again with another and is stored with it
C6_Witness ==
    /\ last.op = "put" /\ last.after_del
    /\ last.ret = last.val
    /\ Lookup(rt, last.key) = last.val
    /\ ref_ret = last.val

(***************************************************************************)
(* C7.  A full iteration over an unmodified table produces exactly count   *)
(* items, each with a key, and get of each produced key returns the        *)
(* produced value.                                                         *)
(***************************************************************************)
C7_IterationConsistent ==
    LET out == FullIteration(rt)
    IN  /\ Len(out) = robin_table_count(rt)
        /\ \A j \in 1 .. Len(out) :
               /\ out[j].key # NoKey
               /\ Lookup(rt, out[j].key) = out[j].val

\* a grown table whose first bucket is occupied and whose buckets hold two
\* different values is iterated in full
C7_Witness ==
    /\ rt.bucket_count > rt.init_buckets
    /\ rt.buckets[0].key # NoKey
    /\ Len(FullIteration(rt)) > rt.init_buckets \div 2
    /\ \E j \in 1 .. Len(FullIteration(rt)) : FullIteration(rt)[j].val # temp_val

(***************************************************************************)
(* C8.  After every call, count equals the number of buckets whose key is  *)
(* not NULL.                                                               *)
(***************************************************************************)
C8_CountIsOccupied == rt.count = Cardinality(Occupied(rt))

\* a del whose shrink failed left a non-empty table
C8_Witness == last.op = "del_nomem" /\ rt.count > 0 /\ last.ret # NULL

(***************************************************************************)
(* C9.  After every call, every occupied bucket at index i has             *)
(* psl = (i - (hash & mask)) mod bucket_count.                             *)
(***************************************************************************)
C9_PslIsDisplacement ==
    \A i \in Occupied(rt) :
        rt.buckets[i].psl =
            (i - BitAnd(rt.buckets[i].hash, rt.mask)) % rt.bucket_count

\* a del shifted an entry back across the end of the array: the bucket after
\* the last one vacated is in its ideal position, the last bucket of the
\* array is displaced
C9_Witness ==
    /\ last.op = "del" /\ last.ret # NULL /\ ~last.resized
    /\ rt.buckets[rt.mask].key # NoKey /\ rt.buckets[rt.mask].psl > 0
    /\ rt.buckets[0].key # NoKey /\ rt.buckets[0].psl > 0

(***************************************************************************)
(* C10.  Capacity floor: bucket_count never falls below the bucket count   *)
(* the table was created with.                                             *)
(***************************************************************************)
C10_CapacityFloor == rt.bucket_count >= rt.init_buckets

\* a del at the initial capacity met the load condition of a shrink
C10_Witness ==
    /\ last.op = "del" /\ last.ret # NULL
    /\ rt.bucket_count = rt.init_buckets
    /\ rt.count <= rt.shrink_at /\ rt.count > 0

(***************************************************************************)
(* C11.  In every reachable state bucket_count is a power of two and       *)
(* mask = bucket_count - 1: after create, after every growing or shrinking *)
(* resize, and after a clear that resets the capacity.                     *)
(***************************************************************************)
C11_PowerOfTwoMask ==
    /\ \E k \in 0 .. 30 : rt.bucket_count = 2 ^ k
    /\ rt.mask = rt.bucket_count - 1
    /\ DOMAIN rt.buckets = 0 .. rt.bucket_count - 1

\* a clear with update_buckets brought a grown table back to its initial
\* bucket array
C11_Witness ==
    /\ last.op = "clear" /\ last.val = 1 /\ last.resized
    /\ rt.bucket_count = rt.init_buckets

(***************************************************************************)
(* C12.  In every reachable state expand_at = bucket_count * 75 / 100 and  *)
(* shrink_at = bucket_count * 25 / 100 in integer division: create, resize *)
(* and clear with update_buckets all recompute both.                       *)
(***************************************************************************)
C12_Thresholds ==
    /\ rt.expand_at * 100 <= rt.bucket_count * RT_LOAD_FACTOR_PCT_MAX
    /\ rt.bucket_count * RT_LOAD_FACTOR_PCT_MAX < (rt.expand_at + 1) * 100
    /\ rt.shrink_at * 100 <= rt.bucket_count * RT_LOAD_FACTOR_PCT_MIN
    /\ rt.bucket_count * RT_LOAD_FACTOR_PCT_MIN < (rt.shrink_at + 1) * 100

\* a del shrank the table: the thresholds are those of the smaller array
C12_Witness ==
    /\ last.op = "del" /\ last.resized
    /\ rt.bucket_count = rt.init_buckets
    /\ rt.count > rt.shrink_at /\ rt.count < rt.expand_at

(***************************************************************************)
(* C13.  A put that requires growth (count >= expand_at) while the         *)
(* allocation of the doubled bucket array fails returns NULL and leaves    *)
(* the table as it was: buckets, count, bucket_count, mask and thresholds  *)
(* are unchanged and the key is not inserted.                              *)
(***************************************************************************)
C13_PutStep ==
    last'.op = "put_nomem" =>
        /\ rt.count >= rt.expand_at
        /\ last'.ret = NULL
        /\ rt' = rt
        /\ Lookup(rt', last'.key) = StoredVal(rt, last'.key)

C13_GrowFailure == [][C13_PutStep]_vars

\* the failed put was of a key the table does not hold
C13_Witness ==
    /\ last.op = "put_nomem" /\ last.ret = NULL
    /\ rt.count >= rt.expand_at
    /\ StoredVal(rt, last.key) = NULL

(***************************************************************************)
(* C14.  A clear with update_buckets whose allocation of the initial       *)
(* bucket array fails returns false and leaves the table as it was: every  *)
(* stored key is still found with its value, and count, bucket_count and   *)
(* the thresholds are unchanged.                                           *)
(***************************************************************************)
C14_ClearStep ==
    last'.op = "clear_nomem" =>
        /\ last'.ret = 0
        /\ rt' = rt
        /\ \A key \in AllKeys :
               StoredVal(rt, key) # NULL => Lookup(rt', key) = StoredVal(rt, key)

C14_ClearFailure == [][C14_ClearStep]_vars

\* the failed clear was of a grown table that holds entries
C14_Witness ==
    /\ last.op = "clear_nomem" /\ last.ret = 0
    /\ rt.count > 0 /\ rt.bucket_count > rt.init_buckets
    /\ \E key \in ActiveKeys : Lookup(rt, key) # NULL

(***************************************************************************)
(* C15.  A del that meets the shrink condition while the allocation of the *)
(* halved bucket array fails still returns the value of the key, the key   *)
(* is gone, count is one less, bucket_count, mask and the thresholds are   *)
(* those before the del, every other key is found as before, and the table *)
(* is a valid one (count, psl, Robin Hood ordering).                       *)
(***************************************************************************)
C15_DelStep ==
    last'.op = "del_nomem" =>
        /\ last'.ret # NULL /\ last'.ret = StoredVal(rt, last'.key)
        /\ Lookup(rt', last'.key) = NULL
        /\ rt'.count = rt.count - 1
        /\ rt'.bucket_count = rt.bucket_count /\ rt'.mask = rt.mask
        /\ rt'.expand_at = rt.expand_at /\ rt'.shrink_at = rt.shrink_at
        /\ ValidTable(rt')
        /\ \A key \in AllKeys \ {last'.key} :
               Lookup(rt', key) = StoredVal(rt, key)

C15_ShrinkFailure == [][C15_DelStep]_vars

\* the del left a grown table at or under its shrink threshold
C15_Witness ==
    /\ last.op = "del_nomem" /\ last.ret # NULL
    /\ rt.bucket_count > rt.init_buckets
    /\ rt.count <= rt.shrink_at /\ rt.count > 0

(***************************************************************************)
(* C16.  A successful clear leaves count = 0 and every bucket empty, so    *)
(* that get reports every key absent; without update_buckets bucket_count  *)
(* is unchanged and clear cannot fail, with update_buckets bucket_count    *)
(* becomes init_buckets.                                                   *)
(***************************************************************************)
C16_ClearStep ==
    last'.op = "clear" =>
        /\ last'.ret = 1
        /\ rt'.count = 0
        /\ \A i \in DOMAIN rt'.buckets : rt'.buckets[i] = ZeroBucket
        /\ \A key \in AllKeys : Lookup(rt', key) = NULL
        /\ (last'.val = 0 => rt'.bucket_count = rt.bucket_count)
        /\ (last'.val = 1 => rt'.bucket_count = rt.init_buckets)

C16_NoFlagSucceeds ==
    \A alloc_ok \in BOOLEAN : robin_table_clear(rt, FALSE, alloc_ok).ret

C16_Clear == [](C16_NoFlagSucceeds) /\ [][C16_ClearStep]_vars

\* a clear without update_buckets emptied a grown table in place
C16_Witness ==
    /\ last.op = "clear" /\ last.val = 0 /\ last.ret = 1
    /\ rt.bucket_count > rt.init_buckets /\ rt.count = 0

(***************************************************************************)
(* C17.  Two tables created with the same count and different hash         *)
(* functions, one of them hashing every key alike, that are given the same *)
(* put, get, del, clear and count calls with the same allocation outcomes  *)
(* return the same result from every call and have the same bucket_count   *)
(* after every call; only the placement and the psl of the entries differ. *)
(***************************************************************************)
C17_SameResults ==
    /\ peer.ret = last.ret
    /\ peer.rt.bucket_count = rt.bucket_count
    /\ peer.rt.count = rt.count
    /\ \A key \in AllKeys : StoredVal(peer.rt, key) = StoredVal(rt, key)

\* after a del that shrank both tables they hold the same entries in
\* different buckets and with different psl
C17_Witness ==
    /\ last.op = "del" /\ last.ret # NULL /\ last.resized
    /\ rt.hash_func # peer.rt.hash_func
    /\ rt.count > 0
    /\ \E i \in Occupied(rt), j \in Occupied(peer.rt) :
           /\ rt.buckets[i].key = peer.rt.buckets[j].key
           /\ i # j
           /\ rt.buckets[i].psl # peer.rt.buckets[j].psl

(***************************************************************************)
(* C18.  For every count n for which n * 100 does not overflow, create     *)
(* allocates target_capacity(n) buckets: with raw = ceil(n * 100 / 75), 32 *)
(* if raw < 32 and otherwise the least power of two >= raw.                *)
(***************************************************************************)
C18_raw(n) == (n * 100 + 74) \div 75

C18_target_capacity(n) ==
    IF C18_raw(n) < 32 THEN 32
    ELSE CHOOSE p \in Pow2Set :
             /\ p >= C18_raw(n)
             /\ \A q \in Pow2Set : q >= C18_raw(n) => p <= q

C18_CreateCapacity ==
    /\ (last.op = "create" /\ last.val * 100 <= SIZE_MAX) =>
           /\ rt.bucket_count = C18_target_capacity(last.val)
           /\ DOMAIN rt.buckets = 0 .. rt.bucket_count - 1
    /\ (last.op = "put_run" /\ filled * 100 <= SIZE_MAX) =>
           rt.init_buckets = C18_target_capacity(filled)

\* a count for which n * 100 / 75 is not a whole number and more than 32
\* buckets are needed
C18_Witness ==
    /\ last.op = "create"
    /\ (last.val * 100) % 75 # 0
    /\ rt.bucket_count > 32

(***************************************************************************)
(* C19.  A table created for 0 entries has 32 buckets; after 24 distinct   *)
(* keys have been put count is 24 and bucket_count is still 32; the 25th   *)
(* put grows the table to 64 buckets and then inserts its key.             *)
(***************************************************************************)
C19_GrowthScenario ==
    /\ (last.op = "create" => rt.bucket_count = 32 /\ rt.count = 0)
    /\ (last.op = "put" /\ filled <= 24 =>
           /\ rt.count = filled /\ rt.bucket_count = 32
           /\ last.ret = temp_val /\ ~last.resized)
    /\ (last.op = "put" /\ filled = 25 =>
           /\ last.resized /\ rt.bucket_count = 64
           /\ rt.count = 25 /\ last.ret = temp_val
           /\ Lookup(rt, last.key) = temp_val)

\* the 25th put has grown the table
C19_Witness ==
    /\ last.op = "put" /\ last.key = keys[25] /\ filled = 25
    /\ last.resized /\ rt.bucket_count = 64

(***************************************************************************)
(* C20.  From the table of the growth scenario, grown to 64 buckets from   *)
(* its initial 32, deleting 18 of the first 24 keys one by one with no     *)
(* allocation failure ends with bucket_count = 32, and bucket_count is     *)
(* never below 32 on the way.                                              *)
(***************************************************************************)
C20_ShrinkScenario ==
    /\ rt.bucket_count >= 32
    /\ (last.op = "del" => last.ret = temp_val /\ rt.count = filled - ScenarioDeleted)
    /\ (last.op = "del" /\ ScenarioDeleted >= 18 => rt.bucket_count = 32)

\* the 18th key has been deleted
C20_Witness ==
    /\ last.op = "del" /\ ScenarioDeleted = 18
    /\ rt.count = 7 /\ rt.bucket_count = 32
    /\ \A i \in 1 .. 24 : Lookup(rt, keys[i]) = ref[keys[i]]

(***************************************************************************)
(* C21.  del of a key that is not stored returns NULL and leaves the whole *)
(* table as it was: buckets, count, bucket_count, mask and thresholds.  It *)
(* does not shrink the table, also when bucket_count > init_buckets and    *)
(* count <= shrink_at hold already.                                        *)
(***************************************************************************)
C21_DelStep ==
    (last'.op \in DelOps /\ StoredVal(rt, last'.key) = NULL) =>
        /\ last'.ret = NULL
        /\ ~last'.resized
        /\ rt' = rt

C21_DelAbsent == [][C21_DelStep]_vars

\* the key was absent from a grown table at or under its shrink threshold
C21_Witness ==
    /\ last.op = "del" /\ last.ret = NULL
    /\ rt.bucket_count > rt.init_buckets
    /\ rt.count <= rt.shrink_at /\ rt.count > 0

(***************************************************************************)
(* C22.  In every reachable state the probe of get and del for a key ends  *)
(* with "not found", at an empty bucket or at a bucket whose psl is        *)
(* strictly less than the distance probed, only if no occupied bucket      *)
(* holds the key; and the bucket it returns has the hash, the length and   *)
(* the bytes of the key.                                                   *)
(***************************************************************************)
C22_ProbeOf(key) == robin_table_get_bucket(rt, key, Len(key))

C22_LookupSound ==
    \A key \in AllKeys :
        /\ C22_ProbeOf(key).idx = NoBucket => SlotsOf(rt, key) = {}
        /\ C22_ProbeOf(key).idx # NoBucket =>
               LET bucket == rt.buckets[C22_ProbeOf(key).idx]
               IN  /\ bucket.hash = hash_func(rt.hash_func, key, Len(key), rt.seed)
                   /\ bucket.klen = Len(key)
                   /\ bucket.key = key

\* the index at which the probe for key ended
C22_StopOf(key) ==
    BitAnd(BitAnd(hash_func(rt.hash_func, key, Len(key), rt.seed), rt.mask)
               + C22_ProbeOf(key).steps, rt.mask)

\* a get ended with "not found" at an occupied bucket of lower psl, after it
\* had passed a bucket that holds another key with the same hash
C22_Witness ==
    /\ last.op = "get" /\ last.ret = NULL
    /\ C22_ProbeOf(last.key).idx = NoBucket
    /\ C22_ProbeOf(last.key).steps > 0
    /\ rt.buckets[C22_StopOf(last.key)].key # NoKey
    /\ \E i \in Occupied(rt) :
           rt.buckets[i].hash = hash_func(rt.hash_func, last.key, Len(last.key), rt.seed)

(***************************************************************************)
(* C23.  Robin Hood ordering: after every call, for every occupied bucket  *)
(* at index i with psl p > 0, the bucket at index (i - 1) mod bucket_count *)
(* is occupied and has psl >= p - 1.  The swap of put, the backward shift  *)
(* of del and the reinsertion of resize preserve it.                       *)
(***************************************************************************)
C23_RobinHoodOrdering ==
    \A i \in DOMAIN rt.buckets :
        (rt.buckets[i].key # NoKey /\ rt.buckets[i].psl > 0) =>
            /\ rt.buckets[(i - 1) % rt.bucket_count].key # NoKey
            /\ rt.buckets[(i - 1) % rt.bucket_count].psl >= rt.buckets[i].psl - 1

\* after a del that shifted entries back, the table has displaced entries
\* whose psl is one more than, and others whose psl is not more than, that of
\* the bucket before them
C23_Witness ==
    /\ last.op \in DelOps /\ last.ret # NULL
    /\ \E i \in Occupied(rt) :
           /\ rt.buckets[i].psl >= 2
           /\ rt.buckets[(i - 1) % rt.bucket_count].psl = rt.buckets[i].psl - 1
    /\ \E i \in Occupied(rt) :
           /\ rt.buckets[i].psl > 0
           /\ rt.buckets[(i - 1) % rt.bucket_count].psl >= rt.buckets[i].psl

(***************************************************************************)
(* C24.  put tests count >= expand_at before it hashes or probes: when the *)
(* test holds it resizes to exactly bucket_count * 2 before the probe,     *)
(* also when the key is already stored and no entry is added, and returns  *)
(* without a probe when calloc fails; when count < expand_at on entry, put *)
(* does not change bucket_count.  One put grows the table by one doubling  *)
(* at most.                                                                *)
(***************************************************************************)
C24_PutStep ==
    /\ last'.op = "put" =>
           /\ rt.count >= rt.expand_at =>
                  /\ last'.resized
                  /\ rt'.bucket_count = rt.bucket_count * 2
                  /\ rt'.count = rt.count + (IF StoredVal(rt, last'.key) = NULL THEN 1 ELSE 0)
           /\ rt.count < rt.expand_at =>
                  /\ ~last'.resized
                  /\ rt'.bucket_count = rt.bucket_count
    \* calloc fails: put returns before it hashes or probes
    /\ last'.op = "put_nomem" =>
           /\ rt.count >= rt.expand_at
           /\ last'.ret = NULL
           /\ rt' = rt

C24_GrowthTrigger == [][C24_PutStep]_vars

\* a put of a stored key with another value grew the table and added nothing
C24_Witness ==
    /\ last.op = "put" /\ last.resized
    /\ last.ret # NULL /\ last.ret # last.val
    /\ rt.count < rt.expand_at
    /\ rt.count = ExpandAt(rt.bucket_count \div 2)

(***************************************************************************)
(* C25.  A del that removes a key halves bucket_count, to exactly          *)
(* bucket_count / 2, if and only if after the shift and the decrement of   *)
(* count bucket_count > init_buckets and count <= shrink_at, and calloc    *)
(* succeeds; otherwise bucket_count stays.  One del halves once at most,   *)
(* also when the count is at or below the shrink_at of the halved array.   *)
(***************************************************************************)
C25_DelStep ==
    (last'.op \in DelOps /\ last'.ret # NULL) =>
        LET shrinks == /\ rt.bucket_count > rt.init_buckets
                       /\ rt.count - 1 <= rt.shrink_at
                       /\ last'.op = "del"
        IN  /\ rt'.count = rt.count - 1
            /\ shrinks <=> last'.resized
            /\ shrinks => rt'.bucket_count * 2 = rt.bucket_count
            /\ ~shrinks => rt'.bucket_count = rt.bucket_count

C25_ShrinkTrigger == [][C25_DelStep]_vars

\* a del halved a table that the shrink test would halve once more
C25_Witness ==
    /\ last.op = "del" /\ last.ret # NULL /\ last.resized
    /\ NeedShrink(rt)

(***************************************************************************)
(* C26.  After every public operation count <= expand_at: the load of the  *)
(* table is 75% at most and a bucket is empty.  The same holds of the new  *)
(* array after every step of the reinsertion loop of a resize, that of the *)
(* growth a put is about to make and that of the shrink a del has asked    *)
(* for, of which the table after a failed shrink is the starting point.    *)
(***************************************************************************)
C26_Bounded(t) ==
    /\ t.count <= t.expand_at
    /\ t.count * 100 <= RT_LOAD_FACTOR_PCT_MAX * t.bucket_count
    /\ \E i \in DOMAIN t.buckets : t.buckets[i].key = NoKey

\* the table of resize(rt, bucket_count) after the reinsertion of buckets[0 .. i - 1]
C26_Reinserted(bucket_count, i) ==
    resize_loop(FreshTable(rt, bucket_count), rt.buckets, i, 0, FALSE).rt

C26_LoadBound ==
    /\ C26_Bounded(rt)
    /\ NeedExpand(rt) =>
           \A i \in 0 .. rt.bucket_count :
               C26_Bounded(C26_Reinserted(rt.bucket_count * 2, i))
    /\ NeedShrink(rt) =>
           \A i \in 0 .. rt.bucket_count :
               C26_Bounded(C26_Reinserted(Shr(rt.bucket_count, 1), i))

\* a put has filled the table to its threshold: the next put grows it
C26_Witness ==
    /\ last.op = "put" /\ last.ret = last.val
    /\ rt.count = rt.expand_at
    /\ NeedExpand(rt)

(***************************************************************************)
(* C27.  In every reachable state every probe loop ends within             *)
(* bucket_count iterations, for every key of the caller and every hash     *)
(* function: the lookup probe of get and del, the backward shift of del,   *)
(* the insertion probe of put, after the growth if put grows the table,    *)
(* and the insertion probe of every reinsertion of a resize, that of the   *)
(* doubling a put is about to make and that of the halving a del has asked *)
(* for.  A loop that returns after s advances has made s + 1 iterations.   *)
(***************************************************************************)
C27_Keys == ActiveKeys \cup {keys[i] : i \in 1 .. DrainPuts}

C27_Ends(r, t) == ~r.hang /\ r.steps + 1 <= t.bucket_count

\* the reinsertions of resize(rt, bucket_count): bucket i of the old array is
\* put into the new array that holds the entries of buckets[0 .. i - 1]
C27_ReinsertionsEnd(bucket_count) ==
    \A i \in DOMAIN rt.buckets :
        rt.buckets[i].key # NoKey =>
            \E t \in {resize_loop(FreshTable(rt, bucket_count), rt.buckets, i, 0, FALSE).rt} :
                C27_Ends(robin_table_put0(t, rt.buckets[i].key, rt.buckets[i].klen,
                                          rt.buckets[i].val), t)

C27_ProbesEnd ==
    /\ ~last.hang
    /\ \A key \in C27_Keys :
           \E b \in {robin_table_get_bucket(rt, key, Len(key))} :
               /\ C27_Ends(b, rt)
               /\ b.idx # NoBucket => C27_Ends(del_shift(rt, b.idx, 0), rt)
    /\ \E t \in {IF NeedExpand(rt)
                  THEN robin_table_resize(rt, rt.bucket_count * 2, TRUE).rt
                  ELSE rt} :
           \A key \in C27_Keys :
               C27_Ends(robin_table_put0(t, key, Len(key), temp_val), t)
    /\ NeedExpand(rt) => C27_ReinsertionsEnd(rt.bucket_count * 2)
    /\ NeedShrink(rt) => C27_ReinsertionsEnd(Shr(rt.bucket_count, 1))

\* a del has left a table that the shrink test would halve, and the lookup
\* of some key advances ten times or more
C27_Witness ==
    /\ last.op = "del_nomem" /\ last.ret # NULL
    /\ NeedShrink(rt)
    /\ \E key \in C27_Keys : robin_table_get_bucket(rt, key, Len(key)).steps >= 10

(***************************************************************************)
(* C28.  A resize that gets its memory keeps the contents: the entries     *)
(* (key, key length, value, hash) of the new array are those of the old,   *)
(* each once, count is what it was, bucket_count, mask and thresholds are  *)
(* those of the requested size, and psl is recomputed: it is the distance  *)
(* from the ideal bucket under the new mask and the Robin Hood ordering    *)
(* holds.  Checked for the doubling put makes of a table with              *)
(* count >= expand_at and for the halving del makes of the table it has    *)
(* shifted, which is the table a failed shrink leaves.                     *)
(***************************************************************************)
C28_Entries(t) ==
    {[key |-> t.buckets[i].key, klen |-> t.buckets[i].klen,
      val |-> t.buckets[i].val, hash |-> t.buckets[i].hash] : i \in Occupied(t)}

C28_Preserved(bucket_count) ==
    \E g \in {robin_table_resize(rt, bucket_count, TRUE)} :
        /\ g.ok /\ ~g.hang
        /\ C28_Entries(g.rt) = C28_Entries(rt)
        /\ g.rt.count = rt.count
        /\ Cardinality(Occupied(g.rt)) = rt.count
        /\ g.rt.bucket_count = bucket_count
        /\ DOMAIN g.rt.buckets = 0 .. bucket_count - 1
        /\ g.rt.mask = bucket_count - 1
        /\ g.rt.expand_at = ExpandAt(bucket_count)
        /\ g.rt.shrink_at = ShrinkAt(bucket_count)
        /\ PslIsDisplacement(g.rt)
        /\ RobinHoodOrdered(g.rt)

C28_ResizeKeeps ==
    /\ NeedExpand(rt) => C28_Preserved(rt.bucket_count * 2)
    /\ NeedShrink(rt) => C28_Preserved(Shr(rt.bucket_count, 1))

\* del has shifted a table of two values and two key lengths and its shrink
\* moves an entry to another index and gives it another psl
C28_Witness ==
    /\ last.op = "del_nomem" /\ last.ret # NULL
    /\ NeedShrink(rt)
    /\ \E i, j \in Occupied(rt) :
           /\ rt.buckets[i].val # rt.buckets[j].val
           /\ rt.buckets[i].klen # rt.buckets[j].klen
    /\ \E g \in {robin_table_resize(rt, Shr(rt.bucket_count, 1), TRUE).rt} :
           \E i \in Occupied(rt), j \in Occupied(g) :
               /\ g.buckets[j].key = rt.buckets[i].key
               /\ i # j
               /\ g.buckets[j].psl # rt.buckets[i].psl

(***************************************************************************)
(* C29.  The two assertions at the top of resize hold at every call: the   *)
(* bucket count put asks for, bucket_count * 2, and the one del asks for,  *)
(* bucket_count / 2, is a power of two and is greater than count.  Checked *)
(* of every call made, of the doubling put would ask for in every state    *)
(* with count >= expand_at, and of the halving del has asked for in every  *)
(* state a failed shrink leaves, whatever the outcome of calloc.           *)
(***************************************************************************)
C29_Precondition(bucket_count) ==
    /\ bucket_count \in Pow2Set
    /\ bucket_count > rt.count
    /\ \A alloc_ok \in BOOLEAN : robin_table_resize(rt, bucket_count, alloc_ok).asserts

C29_ResizeAsserts ==
    /\ last.asserts
    /\ NeedExpand(rt) => C29_Precondition(rt.bucket_count * 2)
    /\ NeedShrink(rt) => C29_Precondition(Shr(rt.bucket_count, 1))

\* a del has asked for half the buckets of a table twice grown that holds
\* shrink_at entries, and calloc failed
C29_Witness ==
    /\ last.op = "del_nomem" /\ last.ret # NULL
    /\ NeedShrink(rt)
    /\ rt.count = rt.shrink_at
    /\ rt.bucket_count > 2 * rt.init_buckets

(***************************************************************************)
(* C30.  The backward shift of a del that finds its key and does not       *)
(* resize.  f is the bucket of the key and s the first bucket after f,     *)
(* wrapping, that is empty or has psl 0, both taken before the call; s is  *)
(* len buckets after f.  Every entry between f and s is moved one bucket   *)
(* back with psl one less and key, klen, val and hash as they were,        *)
(* the bucket before s is zeroed, and every bucket outside f .. s - 1 is   *)
(* as it was.                                                              *)
(***************************************************************************)
\* the buckets d = 1, 2, ... after f that are empty or have psl 0
C30_Ends(f) ==
    {d \in 1 .. rt.bucket_count - 1 :
        \E b \in {rt.buckets[(f + d) % rt.bucket_count]} : b.key = NoKey \/ b.psl = 0}

C30_DelStep ==
    (last'.op \in DelOps /\ last'.ret # NULL /\ ~last'.resized) =>
        /\ Cardinality(SlotsOf(rt, last'.key)) = 1
        /\ rt'.bucket_count = rt.bucket_count
        /\ \E f \in SlotsOf(rt, last'.key) :
               \E ends \in {C30_Ends(f)} : \E len \in ends :
                   /\ \A d \in ends : len <= d
                   /\ \A e \in 1 .. len - 1 :
                          rt'.buckets[(f + e - 1) % rt.bucket_count] =
                              [rt.buckets[(f + e) % rt.bucket_count] EXCEPT !.psl = @ - 1]
                   /\ rt'.buckets[(f + len - 1) % rt.bucket_count] = ZeroBucket
                   /\ \A i \in DOMAIN rt.buckets :
                          (i - f) % rt.bucket_count >= len =>
                              rt'.buckets[i] = rt.buckets[i]

C30_BackwardShift == [][C30_DelStep]_vars

\* after a del without resize the bucket at the ideal index of the deleted key
\* and the two after it hold entries in their ideal position: the key was in
\* the first or the second of them (a lookup stops at the second otherwise)
\* and two entries or more were moved back into them
C30_Witness ==
    /\ last.op \in DelOps /\ last.ret # NULL /\ ~last.resized
    /\ \A d \in 0 .. 2 :
           \E b \in {rt.buckets[BitAnd(hash_func(rt.hash_func, last.key, Len(last.key),
                                                 rt.seed) + d, rt.mask)]} :
               b.key # NoKey /\ b.psl = 0

(***************************************************************************)
(* C31.  A put of a stored key into a table with count < expand_at returns *)
(* the stored value and leaves the whole table as it was: every bucket,    *)
(* with its key, value and psl, count, bucket_count, mask and thresholds.  *)
(***************************************************************************)
C31_PutStep ==
    (/\ last'.op \in PutOps
     /\ SlotsOf(rt, last'.key) # {}
     /\ rt.count < rt.expand_at) =>
        /\ rt' = rt
        /\ last'.ret = StoredVal(rt, last'.key)
        /\ ~last'.resized

C31_DuplicatePutFrame == [][C31_PutStep]_vars

\* a put with another value found its key after passing a bucket or more
C31_Witness ==
    /\ last.op = "put" /\ ~last.resized
    /\ last.ret # NULL /\ last.ret # last.val
    /\ rt.count < rt.expand_at
    /\ \E i \in SlotsOf(rt, last.key) : rt.buckets[i].psl >= 1

(***************************************************************************)
(* C32.  The iterator on an unmodified table: successive iter_next calls   *)
(* return true once for each occupied bucket, in rising index order, and   *)
(* expose its key and val; the first call after the last occupied bucket   *)
(* returns false and exposes no key and no val; every later call returns   *)
(* false as well; no call changes the table.                               *)
(***************************************************************************)
\* the last call was an iter_next that returned false
C32_Ended == last.op = "iter_next" /\ last.ret = 0

\* the occupied buckets after the one the last call exposed
C32_Rest ==
    IF last.op = "iter_next"
    THEN {i \in Occupied(rt) : \A j \in SlotsOf(rt, last.key) : i > j}
    ELSE Occupied(rt)

\* a call that follows iter_create or a call that returned true
C32_Protocol ==
    (last'.op = "iter_next" /\ ~C32_Ended) =>
        /\ rt' = rt
        /\ IF C32_Rest = {}
           THEN last'.ret = 0 /\ iter'.key = NoKey /\ iter'.val = NULL
           ELSE \E i \in C32_Rest :
                    /\ \A j \in C32_Rest : i <= j
                    /\ last'.ret = 1
                    /\ iter'.key = rt.buckets[i].key
                    /\ iter'.val = rt.buckets[i].val

\* a call that follows a call that returned false
C32_StaysEnded ==
    (last'.op = "iter_next" /\ C32_Ended) =>
        /\ rt' = rt
        /\ last'.ret = 0

C32_Original == [][C32_Protocol /\ C32_StaysEnded]_vars

(***************************************************************************)
(* C33.  For every count n, the table create(n) returns has                *)
(* expand_at >= n, and the puts of the first n keys of the key array, all  *)
(* different, never resize it: each returns its value, whatever the        *)
(* outcome calloc would have, bucket_count stays init_buckets and the      *)
(* table holds n entries.  The second conjunct is the same of the puts the *)
(* caller has made.                                                        *)
(***************************************************************************)
C33_Original ==
    /\ last.op = "create" =>
           /\ rt.expand_at >= last.val
           /\ \A alloc_ok \in BOOLEAN :
                  \E r \in {put_run(RunStart(rt), 1, last.val, alloc_ok)} :
                      /\ ~r.resized /\ ~r.hang
                      /\ r.good = last.val
                      /\ r.rt.count = last.val
                      /\ r.rt.bucket_count = rt.init_buckets
    /\ last.op = "put_run" =>
           /\ ~last.resized
           /\ last.ret = filled
           /\ rt.count = filled
           /\ rt.bucket_count = rt.init_buckets

----------------------------------------------------------------------------
(***************************************************************************)
(* C34: key uniqueness.  In every reachable table no two occupied buckets  *)
(* hold the same key: a put does not create a second entry for a stored    *)
(* key, also when its probe swapped, and neither the reinsertion of a      *)
(* resize nor the backward shift of a del leaves an entry twice.           *)
(***************************************************************************)
C34_KeyUniqueness ==
    \A i \in Occupied(rt) : \A j \in Occupied(rt) :
        rt.buckets[i].key = rt.buckets[j].key => i = j

\* a put has just stored a key that was not in the table (it had been
\* deleted by the call before) and its probe swapped: the key sits at least
\* one bucket from its ideal position and the entry in the next bucket has
\* its ideal position after that of the key, so it was displaced
C34_Witness ==
    /\ last.op = "put"
    /\ last.after_del
    /\ \E i \in SlotsOf(rt, last.key) :
           LET n == rt.buckets[BitAnd(i + 1, rt.mask)]
           IN  /\ rt.buckets[i].psl >= 1
               /\ n.key # NoKey
               /\ n.psl >= 1
               /\ n.psl <= rt.buckets[i].psl

----------------------------------------------------------------------------
(***************************************************************************)
(* C35.  No oversized table under put and del: when no allocation fails    *)
(* and the table is never cleared, after every put and every del a table   *)
(* with more buckets than it was created with holds more than shrink_at    *)
(* entries; so a table the dels have emptied has init_buckets buckets.     *)
(***************************************************************************)
C35_NoOversized ==
    /\ rt.bucket_count > rt.init_buckets => rt.count > rt.shrink_at
    /\ (filled > 0 /\ rt.count = 0) => rt.bucket_count = rt.init_buckets

\* a del has just halved the table, which is still larger than it was created
C35_Witness ==
    /\ last.op = "del"
    /\ last.resized
    /\ rt.bucket_count > rt.init_buckets

----------------------------------------------------------------------------
(***************************************************************************)
(* C36.  Empty buckets are fully zeroed: after every call a bucket without *)
(* key has klen 0, hash 0 and psl 0.  So get_bucket, which tests the hash  *)
(* and the klen of a bucket before it compares bytes and before it tests   *)
(* for emptiness, calls memcmp on no empty bucket it visits, whatever key  *)
(* of klen # 0 it looks for, also one that hashes to 0.                    *)
(***************************************************************************)
C36_HashOf(key) == hash_func(rt.hash_func, key, Len(key), rt.seed)

\* the indexes of the buckets the probe for key visits
C36_Visited(key) ==
    {BitAnd(BitAnd(C36_HashOf(key), rt.mask) + s, rt.mask) :
         s \in 0 .. robin_table_get_bucket(rt, key, Len(key)).steps}

\* get_bucket calls memcmp on the bucket at index i when it looks for key
C36_Compares(key, i) ==
    rt.buckets[i].hash = C36_HashOf(key) /\ rt.buckets[i].klen = Len(key)

C36_EmptyZeroed ==
    /\ \A i \in DOMAIN rt.buckets :
           rt.buckets[i].key = NoKey =>
               /\ rt.buckets[i].klen = 0
               /\ rt.buckets[i].hash = 0
               /\ rt.buckets[i].psl = 0
    /\ \A key \in AllKeys :
           /\ Len(key) # 0
           /\ \A i \in C36_Visited(key) :
                  rt.buckets[i].key = NoKey => ~C36_Compares(key, i)

\* a get of a key that hashes to 0 has ended with "not found" at an empty
\* bucket of a table that holds entries: the hash of that bucket is that of
\* the key
C36_Witness ==
    /\ last.op = "get" /\ last.ret = NULL
    /\ C36_HashOf(last.key) = 0
    /\ rt.count > 0
    /\ \E i \in C36_Visited(last.key) :
           /\ rt.buckets[i].key = NoKey
           /\ rt.buckets[i].hash = C36_HashOf(last.key)

----------------------------------------------------------------------------
(***************************************************************************)
(* C37.  On every non-empty table, whatever its hash function (also one    *)
(* that gives every key the same ideal index), psl_max passes its          *)
(* assertion and returns the largest displacement                          *)
(* (i - (hash & mask)) mod bucket_count of an occupied bucket i, and that  *)
(* is at most count - 1.                                                   *)
(***************************************************************************)
C37_Displacement(t, i) ==
    (i - BitAnd(t.buckets[i].hash, t.mask)) % t.bucket_count

C37_PslMax ==
    \A t \in {rt, peer.rt} :
        t.count # 0 =>
            \E r \in {robin_table_psl_max(t)} :
                /\ r.asserts
                /\ \E i \in Occupied(t) : C37_Displacement(t, i) = r.ret
                /\ \A i \in Occupied(t) : C37_Displacement(t, i) <= r.ret
                /\ r.ret <= t.count - 1

\* after a del of a stored key the table whose hash is the same for every
\* key holds BulkLow entries or more, all in one run, and psl_max returns
\* count - 1
C37_Witness ==
    /\ peer.rt.hash_func = "same"
    /\ last.op \in DelOps /\ last.ret # NULL
    /\ peer.rt.count >= BulkLow
    /\ robin_table_psl_max(peer.rt).ret = peer.rt.count - 1

====
